---- MODULE Spec2Model ----
\* A model of boto3_helpers: the SQS batch packer (sqs.py) and its callers, and
\* the paging and retry loops of dynamodb.py, kinesis.py and medialive.py.
\*
\* Encoding of Python values
\*   str            a sequence of Unicode code points (<<97, 98>> is 'ab')
\*   bytes          a sequence of byte values
\*   dict           a function whose DOMAIN is the set of keys present
\*   Optional[T]    None is <<>>, a value v is <<v>> (used for Id, ReceiptHandle
\*                  and size_limit, the values the code tests against None)
EXTENDS Integers, Sequences, FiniteSets, TLC

VARIABLES
    caller,         \* "_get_batches" (the generator consumed directly),
                    \* "send_batches" or "delete_batches"
    all_messages,   \* the caller's input list (its dicts are mutated in place)
    original,       \* history: all_messages as passed in
    all_deletes,    \* the dicts the generator expression of sqs.py:199 has made
    message_limit,
    size_limit,
    base_id,        \* sqs.py:28
    i,              \* enumerate index, sqs.py:32
    message,        \* loop variable, sqs.py:32
    message_size,   \* sqs.py:37/40
    current_batch,  \* sqs.py:29
    current_size,   \* sqs.py:30
    current_count,  \* sqs.py:31
    emitted,        \* history: the batches yielded so far, in order
    pc,             \* position of the generator
    calls,          \* history: the Entries of each delivery call, in order
    ret,            \* sqs.py:130/200
    raised,         \* the exception that ended the run, "" when none
    responses,      \* history: resp of each delivery call that returned, in order
    ddb,            \* the frame of a batch_yield_items call (dynamodb.py:175),
                    \* [pc |-> "idle"] when none is modelled
    kinesis,        \* the frame of a yield_all_shards (kinesis.py:6) or
                    \* yield_available_stream_records (kinesis.py:81) call
    medialive,      \* the frame of a delete_schedule_action_chain call
                    \* (medialive.py:35)
    awslambda,      \* the frame of a publish_version_limited call
                    \* (awslambda.py:49)
    s3              \* the frame of a query_object call (s3.py:8)

sqs_vars == <<caller, all_messages, original, all_deletes, message_limit, size_limit,
              base_id, i, message, message_size, current_batch, current_size,
              current_count, emitted, pc, calls, ret, raised, responses>>

\* The frames of the functions outside sqs.py
other_vars == <<ddb, kinesis, medialive, awslambda, s3>>

vars == <<sqs_vars, other_vars>>

\* What a step of dynamodb.py, of kinesis.py, of medialive.py, of awslambda.py
\* and of s3.py leaves alone
ddb_others == <<sqs_vars, kinesis, medialive, awslambda, s3>>
kinesis_others == <<sqs_vars, ddb, medialive, awslambda, s3>>
medialive_others == <<sqs_vars, ddb, kinesis, awslambda, s3>>
awslambda_others == <<sqs_vars, ddb, kinesis, medialive, s3>>
s3_others == <<sqs_vars, ddb, kinesis, medialive, awslambda>>

-----------------------------------------------------------------------------
\* Bounds of the model

MaxLen == 3            \* longest generated input of a direct _get_batches run
MaxMessageLimit == 3   \* its message_limit ranges over 1..MaxMessageLimit
MaxSizeLimit == 6      \* its size_limit ranges over None and 1..MaxSizeLimit
MaxSendLen == 2        \* longest generated input of send_batches / delete_batches
MaxSendLimit == 2      \* their message_limit: 1..MaxSendLimit and the default
MaxBodyLen == 2        \* longest generated MessageBody of a direct _get_size call
MaxKeys == 3           \* longest generated all_keys of batch_yield_items
MaxBatchSize == 2      \* its batch_size: 1..MaxBatchSize and the default
MaxRetries == 2        \* responses of one run that report unprocessed keys
MaxBackoffBase == 2    \* backoff_base in tenths of a second: 1..MaxBackoffBase
MaxBackoffMax == 3     \* backoff_max in tenths of a second: 1..MaxBackoffMax
MaxListPages == 3      \* most list_shards pages of one listing
MaxPageShards == 2     \* most shards on one list_shards page
MaxShards == 3         \* most shards of a stream read by yield_available_stream_records
MaxShardRecords == 3   \* most available records of one shard
MaxPageLen == 2        \* most records on one get_records page
MaxActions == 3        \* most actions of a generated MediaLive schedule
MaxVersions == 3       \* most versions a Lambda function has before the call
MaxKeepCount == 3      \* largest keep_count
MaxRecords == 3        \* most records of an S3 Select result
MaxCuts == 2           \* most event boundaries inside the result
MaxFairLen == 2        \* longest generated input of the runs checked for termination

\* Program constants
MESSAGE_LIMIT == 10
SIZE_LIMIT == 262144

-----------------------------------------------------------------------------
\* Python values

None == <<>>
Some(v) == <<v>>

\* The frame of a function that is not called in the run
Idle == [pc |-> "idle"]
EmptyDict == [k \in {} |-> TRUE]

\* dict.get(k)
Get(d, k) == IF k \in DOMAIN d THEN d[k] ELSE None

\* d[k] = v
SetItem(d, k, v) == [x \in (DOMAIN d) \cup {k} |-> IF x = k THEN v ELSE d[x]]

Utf8LenCodePoints(c) == 1

\* Number of bytes of the UTF-8 encoding of one code point
Utf8Len(c) == IF c < 128 THEN 1 ELSE IF c < 2048 THEN 2 ELSE IF c < 65536 THEN 3 ELSE 4

\* len(s.encode('utf-8'))
RECURSIVE EncodedLen(_)
EncodedLen(s) == IF s = <<>> THEN 0 ELSE Utf8Len(Head(s)) + EncodedLen(Tail(s))

\* str(n) for n >= 0
RECURSIVE Decimal(_)
Decimal(n) == IF n < 10 THEN <<48 + n>> ELSE Decimal(n \div 10) \o <<48 + (n % 10)>>

\* FormatId numbering from 0 (enumerate without its start argument)
FormatIdZeroBased(base, n) == base \o <<45>> \o Decimal(n - 1)

\* f'{base}-{n}'
FormatId(base, n) == base \o <<45>> \o Decimal(n)

-----------------------------------------------------------------------------
\* _get_size

\* AttrSize with a 4-byte length before the name, the kind and the value and a
\* 1-byte discriminator before the value
AttrSizeWire(attr_name, attr_data) ==
    (4 + EncodedLen(attr_name))
    + (4 + EncodedLen(attr_data.DataType))
    + (1 + 4 + (IF "StringValue" \in DOMAIN attr_data
                THEN EncodedLen(attr_data.StringValue)
                ELSE IF "BinaryValue" \in DOMAIN attr_data
                THEN Len(attr_data.BinaryValue)
                ELSE 0))

\* The contribution of one (name, data) item of MessageAttributes
AttrSize(attr_name, attr_data) ==
    EncodedLen(attr_name)
    + EncodedLen(attr_data.DataType)
    + (IF "StringValue" \in DOMAIN attr_data THEN EncodedLen(attr_data.StringValue)
       ELSE IF "BinaryValue" \in DOMAIN attr_data THEN Len(attr_data.BinaryValue)
       ELSE 0)

RECURSIVE AttrsSize(_, _)
AttrsSize(attrs, names) ==
    IF names = {} THEN 0
    ELSE LET n == CHOOSE x \in names : TRUE
         IN AttrSize(n, attrs[n]) + AttrsSize(attrs, names \ {n})

\* message.get('MessageAttributes', {})
MessageAttributesOf(m) ==
    IF "MessageAttributes" \in DOMAIN m THEN m.MessageAttributes ELSE EmptyDict

\* _get_size raises KeyError: message['MessageBody'] or attr_data['DataType'] missing
GetSizeRaises(m) ==
    \/ "MessageBody" \notin DOMAIN m
    \/ \E n \in DOMAIN MessageAttributesOf(m) :
          "DataType" \notin DOMAIN MessageAttributesOf(m)[n]

\* GetSize with the items of MessageSystemAttributes counted as well
GetSizeCountsSystemAttributes(m) ==
    LET sys == IF "MessageSystemAttributes" \in DOMAIN m
               THEN m.MessageSystemAttributes ELSE EmptyDict
    IN EncodedLen(m.MessageBody)
       + AttrsSize(MessageAttributesOf(m), DOMAIN MessageAttributesOf(m))
       + AttrsSize(sys, DOMAIN sys)

\* the value _get_size returns when it does not raise
GetSize(m) ==
    EncodedLen(m.MessageBody)
    + AttrsSize(MessageAttributesOf(m), DOMAIN MessageAttributesOf(m))

-----------------------------------------------------------------------------
\* Inputs

\* '0001', '00000000-1', 'String', 'r'
IdA == <<48, 48, 48, 49>>
IdB == <<48, 48, 48, 48, 48, 48, 48, 48, 45, 49>>
KindString == <<83, 116, 114, 105, 110, 103>>
HandleR == <<114>>

\* The records the generated inputs are built from: bodies of 1, 2, 3, 6 and 0
\* bytes ('a', 'ab', U+20AC, U+1F574 U+00E9, ''), with and without an Id, an
\* attribute of 8 bytes, and a record with no MessageBody
RecA == [MessageBody |-> <<97>>]
RecB == [Id |-> Some(IdA), MessageBody |-> <<97, 98>>]
RecC == [Id |-> None, MessageBody |-> <<8364>>]
RecD == [MessageBody |-> <<128372, 233>>, DelaySeconds |-> 1]
RecE == [MessageBody |-> <<>>,
         MessageAttributes |->
             (<<116>> :> [DataType |-> KindString, StringValue |-> <<104>>])]
RecF == [Id |-> Some(IdB), ReceiptHandle |-> Some(HandleR)]

Records == {RecA, RecB, RecC, RecD, RecE, RecF}
SendRecords == {RecA, RecB, RecD, RecF}

RECURSIVE SeqsUpTo(_, _)
SeqsUpTo(S, n) ==
    IF n = 0 THEN {<<>>}
    ELSE LET shorter == SeqsUpTo(S, n - 1)
         IN shorter \cup {Append(s, x) : s \in {t \in shorter : Len(t) = n - 1}, x \in S}

\* tests/test_sqs.py:24-39: '1234567890', '123456789' and '1' as bodies,
\* '0000' .. '0010' as Ids
Body10 == <<49, 50, 51, 52, 53, 54, 55, 56, 57, 48>>
Body9 == <<49, 50, 51, 52, 53, 54, 55, 56, 57>>
Body1 == <<49>>
TestId(k) == IF k < 10 THEN <<48, 48, 48, 48 + k>> ELSE <<48, 48, 49, 48 + (k - 10)>>
TestSendMessages ==
    [k \in 1..11 |->
        IF k = 1
        THEN [Id |-> Some(TestId(0)), MessageBody |-> Body10, DelaySeconds |-> 1]
        ELSE [Id |-> Some(TestId(k - 1)),
              MessageBody |-> IF k <= 4 THEN Body10 ELSE IF k = 5 THEN Body9 ELSE Body1]]

\* tests/test_sqs.py:101-108: 'receipt-k', 'message k', and '5' as the one Id
TestReceipt(k) == <<114, 101, 99, 101, 105, 112, 116, 45, 48 + k>>
TestBody(k) == <<109, 101, 115, 115, 97, 103, 101, 32, 48 + k>>
TestDeleteMessages ==
    [k \in 1..6 |->
        IF k = 5
        THEN [ReceiptHandle |-> Some(TestReceipt(k)), Id |-> Some(<<53>>)]
        ELSE [ReceiptHandle |-> Some(TestReceipt(k)), Body |-> TestBody(k)]]

\* ten records with a body of one byte and no Id
TenMessages == [k \in 1..10 |-> RecA]

SizeLimits == {None} \cup {Some(n) : n \in 1..MaxSizeLimit}

\* <<caller, all_messages, message_limit, size_limit>> of the runs explored:
\* generated runs of each caller, and the runs of the tests
GeneratedRuns ==
    ({"_get_batches"} \X SeqsUpTo(Records, MaxLen)
        \X (1..MaxMessageLimit) \X SizeLimits)
    \cup
    ({"send_batches"} \X SeqsUpTo(SendRecords, MaxSendLen)
        \X ((1..MaxSendLimit) \cup {MESSAGE_LIMIT}) \X {None, Some(2), Some(SIZE_LIMIT)})
    \cup
    ({"delete_batches"} \X SeqsUpTo(SendRecords, MaxSendLen)
        \X ((1..MaxSendLimit) \cup {MESSAGE_LIMIT}) \X {None})

TestRuns ==
    { <<"_get_batches", TestSendMessages, 5, Some(49)>>,
      <<"_get_batches", TestSendMessages, 5, Some(48)>>,
      <<"_get_batches", TenMessages, 5, None>>,
      <<"send_batches", TestSendMessages, 5, Some(49)>>,
      <<"delete_batches", TestDeleteMessages, 5, None>> }

Runs == GeneratedRuns \cup TestRuns

\* secrets.token_hex(4): 8 hexadecimal digits; '00000000' (the value the test
\* patches in) and 'a1b2c3d4' stand for the tokens it can return
TokenHex4 == { <<48, 48, 48, 48, 48, 48, 48, 48>>, <<97, 49, 98, 50, 99, 51, 100, 52>> }

-----------------------------------------------------------------------------
\* _get_batches

\* DeleteEntry that keeps the other keys of the message
DeleteEntryWholeMessage(m) ==
    [Id |-> Get(m, "Id"), ReceiptHandle |-> Get(m, "ReceiptHandle")] @@ m

\* sqs.py:199, one element of all_deletes
DeleteEntry(m) == [Id |-> Get(m, "Id"), ReceiptHandle |-> Get(m, "ReceiptHandle")]

\* WithId that assigns an Id whether or not the record has one
WithIdOverwrites(m, base, n) == SetItem(m, "Id", Some(FormatId(base, n)))

\* sqs.py:33-34
WithId(m, base, n) ==
    IF Get(m, "Id") = None THEN SetItem(m, "Id", Some(FormatId(base, n))) ELSE m

\* MessageSize that counts the bytes of the Id as well
MessageSizeCountsId(m, limit) ==
    IF limit = None THEN 0
    ELSE GetSize(m) + (IF Get(m, "Id") = None THEN 0 ELSE EncodedLen(m.Id[1]))

\* MessageSize that estimates every record that has a body, limit or not
MessageSizeIgnoresLimit(m, limit) ==
    IF limit = None /\ "MessageBody" \notin DOMAIN m THEN 0 ELSE GetSize(m)

\* sqs.py:36-41, message_size
MessageSize(m, limit) == IF limit = None THEN 0 ELSE GetSize(m)

\* ReachedSize with >= for >
ReachedSizeGE(cur_size, msg_size, limit) ==
    IF limit = None THEN FALSE ELSE (cur_size + msg_size) >= limit[1]

\* ReachedSize without the incoming record's size
ReachedSizeStale(cur_size, msg_size, limit) ==
    IF limit = None THEN FALSE ELSE cur_size > limit[1]

\* ReachedSize that lets a record too big for any batch join the current one
ReachedSizeSkipsOversize(cur_size, msg_size, limit) ==
    IF limit = None THEN FALSE
    ELSE msg_size <= limit[1] /\ (cur_size + msg_size) > limit[1]

\* sqs.py:36-41, reached_size
ReachedSize(cur_size, msg_size, limit) ==
    IF limit = None THEN FALSE ELSE (cur_size + msg_size) > limit[1]

\* ReachedCount with > for ==
ReachedCountLate(cur_count, limit) == cur_count > limit

\* ReachedCount that closes a batch one record short of the limit
ReachedCountEarly(cur_count, limit) == cur_count + 1 >= limit

\* sqs.py:43
ReachedCount(cur_count, limit) == cur_count = limit

\* MustClose without the test that the batch is non-empty
MustCloseNoEmptyCheck(batch, reached_size, reached_count) ==
    reached_size \/ reached_count

\* sqs.py:44
MustClose(batch, reached_size, reached_count) ==
    batch # <<>> /\ (reached_size \/ reached_count)

\* Undelivered for a caller that lets the generator run on and delivers only
\* when the source is exhausted
UndeliveredAtEndOnly ==
    caller # "_get_batches" /\ Len(calls) < Len(emitted) /\ pc = "yield55"

UndeliveredOrFailed ==
    /\ caller # "_get_batches"
    /\ \/ Len(calls) < Len(emitted)
       \/ Len(calls) = Len(emitted) /\ ret.Failed # <<>>

\* the batch a suspended generator has handed over and the caller has not yet
\* delivered: send_batches and delete_batches deliver it before they resume
Undelivered == caller # "_get_batches" /\ Len(calls) < Len(emitted)

Init ==
    /\ \E run \in Runs :
          /\ caller = run[1]
          /\ all_messages = run[2]
          /\ message_limit = run[3]
          /\ size_limit = run[4]
    /\ original = all_messages
    /\ all_deletes = <<>>
    /\ base_id = None
    /\ i = 0
    /\ message = EmptyDict
    /\ message_size = 0
    /\ current_batch = <<>>
    /\ current_size = 0
    /\ current_count = 0
    /\ emitted = <<>>
    /\ pc = "start"
    /\ calls = <<>>
    /\ ret = [Successful |-> <<>>, Failed |-> <<>>]
    /\ raised = ""
    /\ responses = <<>>
    /\ ddb = Idle
    /\ kinesis = Idle
    /\ medialive = Idle
    /\ awslambda = Idle
    /\ s3 = Idle

\* sqs.py:28-31: the first next() runs the generator's prologue
Start ==
    /\ pc = "start"
    /\ base_id' \in TokenHex4
    /\ current_batch' = <<>>
    /\ current_size' = 0
    /\ current_count' = 0
    /\ pc' = "for"
    /\ UNCHANGED <<caller, all_messages, original, all_deletes, message_limit,
                   size_limit, i, message, message_size, emitted, calls, ret, raised>>
    /\ UNCHANGED responses
    /\ UNCHANGED other_vars

\* sqs.py:32-52: one iteration of the loop, up to its yield or to its end.
\* send_batches iterates over the caller's dicts themselves, delete_batches over
\* dicts that sqs.py:199 makes as they are pulled
Iterate ==
    /\ pc = "for"
    /\ i < Len(all_messages)
    /\ LET n == i + 1
           pulled == IF caller = "delete_batches" THEN DeleteEntry(all_messages[n])
                     ELSE all_messages[n]
           m == WithId(pulled, base_id, n)
       IN /\ i' = n
          /\ message' = m
          /\ IF caller = "delete_batches"
             THEN /\ all_deletes' = Append(all_deletes, m)
                  /\ UNCHANGED all_messages
             ELSE /\ all_messages' = [all_messages EXCEPT ![n] = m]
                  /\ UNCHANGED all_deletes
          /\ IF size_limit # None /\ GetSizeRaises(m)
             THEN /\ pc' = "raised"
                  /\ raised' = "KeyError"
                  /\ UNCHANGED <<message_size, current_batch, current_size,
                                 current_count, emitted>>
             ELSE LET size == MessageSize(m, size_limit)
                      reached_size == ReachedSize(current_size, size, size_limit)
                      reached_count == ReachedCount(current_count, message_limit)
                  IN /\ message_size' = size
                     /\ UNCHANGED raised
                     /\ IF MustClose(current_batch, reached_size, reached_count)
                        THEN /\ emitted' = Append(emitted, current_batch)
                             /\ pc' = "yield45"
                             /\ UNCHANGED <<current_batch, current_size, current_count>>
                        ELSE /\ current_batch' = Append(current_batch, m)
                             /\ current_size' = current_size + size
                             /\ current_count' = current_count + 1
                             /\ pc' = "for"
                             /\ UNCHANGED emitted
    /\ UNCHANGED <<caller, original, message_limit, size_limit, base_id, calls, ret>>
    /\ UNCHANGED responses
    /\ UNCHANGED other_vars

\* Resume45 that clears the batch after appending the record
Resume45Lost ==
    /\ pc = "yield45"
    /\ ~Undelivered
    /\ current_batch' = <<>>
    /\ current_size' = 0
    /\ current_count' = 0
    /\ pc' = "for"
    /\ UNCHANGED <<caller, all_messages, original, all_deletes, message_limit,
                   size_limit, base_id, i, message, message_size, emitted, calls,
                   ret, raised>>
    /\ UNCHANGED responses
    /\ UNCHANGED other_vars

\* Resume45 that tests the size again before it appends, and so never gets
\* past a record that is larger than size_limit
Resume45StuckOnOversize ==
    /\ pc = "yield45"
    /\ ~Undelivered
    /\ ~ReachedSize(0, message_size, size_limit)
    /\ current_batch' = Append(<<>>, message)
    /\ current_size' = 0 + message_size
    /\ current_count' = 0 + 1
    /\ pc' = "for"
    /\ UNCHANGED <<caller, all_messages, original, all_deletes, message_limit,
                   size_limit, base_id, i, message, message_size, emitted, calls,
                   ret, raised>>
    /\ UNCHANGED responses
    /\ UNCHANGED other_vars

\* Resume45 for a generator that yields the accumulator itself: the batch the
\* caller holds is cleared and appended to with it
Resume45SharesBatch ==
    /\ pc = "yield45"
    /\ ~Undelivered
    /\ current_batch' = Append(<<>>, message)
    /\ emitted' = [emitted EXCEPT ![Len(emitted)] = Append(<<>>, message)]
    /\ current_size' = 0 + message_size
    /\ current_count' = 0 + 1
    /\ pc' = "for"
    /\ UNCHANGED <<caller, all_messages, original, all_deletes, message_limit,
                   size_limit, base_id, i, message, message_size, calls,
                   ret, raised>>
    /\ UNCHANGED responses
    /\ UNCHANGED other_vars

\* Resume45 without the resets of lines 47 and 48
Resume45KeepsTotals ==
    /\ pc = "yield45"
    /\ ~Undelivered
    /\ current_batch' = Append(<<>>, message)
    /\ current_size' = current_size + message_size
    /\ current_count' = current_count + 1
    /\ pc' = "for"
    /\ UNCHANGED <<caller, all_messages, original, all_deletes, message_limit,
                   size_limit, base_id, i, message, message_size, emitted, calls,
                   ret, raised>>
    /\ UNCHANGED responses
    /\ UNCHANGED other_vars

\* sqs.py:46-52: the generator resumes after the yield of line 45
Resume45 ==
    /\ pc = "yield45"
    /\ ~Undelivered
    /\ current_batch' = Append(<<>>, message)
    /\ current_size' = 0 + message_size
    /\ current_count' = 0 + 1
    /\ pc' = "for"
    /\ UNCHANGED <<caller, all_messages, original, all_deletes, message_limit,
                   size_limit, base_id, i, message, message_size, emitted, calls,
                   ret, raised>>
    /\ UNCHANGED responses
    /\ UNCHANGED other_vars

\* Exhaust without the test of line 54
ExhaustAlwaysYields ==
    /\ pc = "for"
    /\ i = Len(all_messages)
    /\ emitted' = Append(emitted, current_batch)
    /\ pc' = "yield55"
    /\ UNCHANGED <<caller, all_messages, original, all_deletes, message_limit,
                   size_limit, base_id, i, message, message_size, current_batch,
                   current_size, current_count, calls, ret, raised>>
    /\ UNCHANGED responses
    /\ UNCHANGED other_vars

\* sqs.py:54-55: the source is exhausted
Exhaust ==
    /\ pc = "for"
    /\ i = Len(all_messages)
    /\ IF current_batch # <<>>
       THEN /\ emitted' = Append(emitted, current_batch)
            /\ pc' = "yield55"
       ELSE /\ pc' = "done"
            /\ UNCHANGED emitted
    /\ UNCHANGED <<caller, all_messages, original, all_deletes, message_limit,
                   size_limit, base_id, i, message, message_size, current_batch,
                   current_size, current_count, calls, ret, raised>>
    /\ UNCHANGED responses
    /\ UNCHANGED other_vars

\* the generator resumes after the yield of line 55 and returns
Resume55 ==
    /\ pc = "yield55"
    /\ ~Undelivered
    /\ pc' = "done"
    /\ UNCHANGED <<caller, all_messages, original, all_deletes, message_limit,
                   size_limit, base_id, i, message, message_size, current_batch,
                   current_size, current_count, emitted, calls, ret, raised>>
    /\ UNCHANGED responses
    /\ UNCHANGED other_vars

-----------------------------------------------------------------------------
\* send_batches, delete_batches

\* The entries of a batch at the positions in idx, in batch order
RECURSIVE Pick(_, _, _)
Pick(batch, idx, k) ==
    IF k > Len(batch) THEN <<>>
    ELSE (IF k \in idx THEN <<batch[k]>> ELSE <<>>) \o Pick(batch, idx, k + 1)

SuccessItem(entry) == [Id |-> Get(entry, "Id"), MessageId |-> "id"]
FailedItem(entry) == [Id |-> Get(entry, "Id"), SenderFault |-> TRUE, Code |-> "Unknown"]

SuccessItems(entries) == [k \in 1..Len(entries) |-> SuccessItem(entries[k])]
FailedItems(entries) == [k \in 1..Len(entries) |-> FailedItem(entries[k])]

\* The responses of send_message_batch / delete_message_batch to a batch: every
\* split of its entries into successful and failed ones, with both lists present
\* or with an empty list left out of the response
Responses(batch) ==
    UNION { LET succ == SuccessItems(Pick(batch, ok, 1))
                fail == FailedItems(Pick(batch, (1..Len(batch)) \ ok, 1))
            IN { [Successful |-> succ, Failed |-> fail],
                 IF succ = <<>> THEN [Failed |-> fail]
                 ELSE IF fail = <<>> THEN [Successful |-> succ]
                 ELSE [Successful |-> succ, Failed |-> fail] }
          : ok \in SUBSET (1..Len(batch)) }

\* resp.get(key, [])
GetList(resp, key) == IF key \in DOMAIN resp THEN resp[key] ELSE <<>>

AccumulatePrepends(acc, resp) ==
    [Successful |-> GetList(resp, "Successful") \o acc.Successful,
     Failed |-> GetList(resp, "Failed") \o acc.Failed]

\* sqs.py:133-134 / 203-204
Accumulate(acc, resp) ==
    [Successful |-> acc.Successful \o GetList(resp, "Successful"),
     Failed |-> acc.Failed \o GetList(resp, "Failed")]

\* sqs.py:132-134 / 202-204: the loop body, with the response the service gives
Deliver ==
    /\ pc \in {"yield45", "yield55"}
    /\ Undelivered
    /\ LET batch == emitted[Len(emitted)]
       IN /\ calls' = Append(calls, batch)
          /\ \E resp \in Responses(batch) :
                /\ ret' = Accumulate(ret, resp)
                /\ responses' = Append(responses, resp)
    /\ UNCHANGED <<caller, all_messages, original, all_deletes, message_limit,
                   size_limit, base_id, i, message, message_size, current_batch,
                   current_size, current_count, emitted, pc, raised>>
    /\ UNCHANGED other_vars

\* sqs.py:132 / 202: the client call raises (botocore ClientError and the like)
DeliverRaises ==
    /\ pc \in {"yield45", "yield55"}
    /\ Undelivered
    /\ calls' = Append(calls, emitted[Len(emitted)])
    /\ pc' = "raised"
    /\ raised' = "ClientError"
    /\ UNCHANGED <<caller, all_messages, original, all_deletes, message_limit,
                   size_limit, base_id, i, message, message_size, current_batch,
                   current_size, current_count, emitted, ret>>
    /\ UNCHANGED responses
    /\ UNCHANGED other_vars

Next == Start \/ Iterate \/ Resume45 \/ Exhaust \/ Resume55 \/ Deliver \/ DeliverRaises

Spec == Init /\ [][Next]_vars

\* The steps of the generator alone
PackerNext == Start \/ Iterate \/ Resume45 \/ Exhaust \/ Resume55

\* Runs of the generator consumed directly, checked for termination. The
\* interpreter runs every step that is ready: a generator that is pulled runs
\* to its next yield, and the consuming loop goes on pulling
FairInit ==
    /\ Init
    /\ caller = "_get_batches"
    /\ \/ Len(all_messages) <= MaxFairLen
       \/ <<caller, all_messages, message_limit, size_limit>> \in TestRuns

FairSpec == FairInit /\ [][PackerNext]_vars /\ WF_vars(PackerNext)

-----------------------------------------------------------------------------
\* _get_size called on its own

\* 'Binary', 'text', 'data'
KindBinary == <<66, 105, 110, 97, 114, 121>>
NameText == <<116, 101, 120, 116>>
NameData == <<100, 97, 116, 97>>

\* Bodies of 'a', U+00E9, U+20AC and U+1F574 (1, 2, 3 and 4 bytes each)
SizeBodies == SeqsUpTo({97, 233, 8364, 128372}, MaxBodyLen)

\* The data of one attribute: a string value, a binary value, both, none, and
\* data without its DataType
SizeAttrData ==
    { [DataType |-> KindString, StringValue |-> <<104>>],
      [DataType |-> KindString, StringValue |-> <<128372, 233>>],
      [DataType |-> KindBinary, BinaryValue |-> <<0, 255, 7>>],
      [DataType |-> KindString, StringValue |-> <<104>>, BinaryValue |-> <<0, 0>>],
      [DataType |-> KindBinary],
      [StringValue |-> <<104>>] }

\* Attribute names 't' and U+00E9
SizeAttrNames == {<<116>>, <<233>>}

SizeAttrDicts == UNION { [names -> SizeAttrData] : names \in SUBSET SizeAttrNames }

\* The fields of a record that are no attributes
SizeExtras ==
    { EmptyDict,
      [Id |-> Some(IdA), DelaySeconds |-> 1],
      [MessageSystemAttributes |->
          (<<65>> :> [DataType |-> KindString, StringValue |-> <<82, 111, 111, 116>>])] }

\* A 10-byte body and one attribute 'text' of kind 'String' with a 2-byte value
ScenarioRecord ==
    [MessageBody |-> Body10,
     MessageAttributes |->
         (NameText :> [DataType |-> KindString, StringValue |-> <<104, 105>>])]

\* tests/test_sqs.py:12-18
TestSizeMessage ==
    [MessageBody |-> [k \in 1..10 |-> 128372],
     MessageAttributes |->
         (NameText :> [DataType |-> KindString, StringValue |-> <<128372, 128372>>])
         @@ (NameData :> [DataType |-> KindBinary,
                          BinaryValue |-> [k \in 1..10 |-> 0]])]

\* The records _get_size is called with: with and without MessageBody, with and
\* without MessageAttributes, with each of the other fields
SizeInputs ==
    { body @@ attrs @@ extra :
        body \in {EmptyDict} \cup {[MessageBody |-> b] : b \in SizeBodies},
        attrs \in {EmptyDict} \cup {[MessageAttributes |-> d] : d \in SizeAttrDicts},
        extra \in SizeExtras }
    \cup {ScenarioRecord, TestSizeMessage}

SizeInit ==
    /\ caller = "_get_size"
    /\ message \in SizeInputs
    /\ all_messages = <<>>
    /\ original = <<>>
    /\ all_deletes = <<>>
    /\ message_limit = MESSAGE_LIMIT
    /\ size_limit = None
    /\ base_id = None
    /\ i = 0
    /\ message_size = 0
    /\ current_batch = <<>>
    /\ current_size = 0
    /\ current_count = 0
    /\ emitted = <<>>
    /\ pc = "size_start"
    /\ calls = <<>>
    /\ ret = [Successful |-> <<>>, Failed |-> <<>>]
    /\ raised = ""
    /\ responses = <<>>
    /\ ddb = Idle
    /\ kinesis = Idle
    /\ medialive = Idle
    /\ awslambda = Idle
    /\ s3 = Idle

\* sqs.py:11-24: the call returns its estimate
GetSizeReturn ==
    /\ pc = "size_start"
    /\ ~GetSizeRaises(message)
    /\ message_size' = GetSize(message)
    /\ pc' = "size_done"
    /\ UNCHANGED <<caller, all_messages, original, all_deletes, message_limit,
                   size_limit, base_id, i, message, current_batch, current_size,
                   current_count, emitted, calls, ret, raised, responses>>
    /\ UNCHANGED other_vars

\* GetSizeKeyError taking a missing MessageBody for an empty one
GetSizeLenient ==
    /\ pc = "size_start"
    /\ GetSizeRaises(message)
    /\ IF "MessageBody" \in DOMAIN message
       THEN pc' = "raised" /\ raised' = "KeyError" /\ message_size' = message_size
       ELSE pc' = "size_done" /\ raised' = raised /\ message_size' = 0
    /\ UNCHANGED <<caller, all_messages, original, all_deletes, message_limit,
                   size_limit, base_id, i, message, current_batch, current_size,
                   current_count, emitted, calls, ret, responses>>
    /\ UNCHANGED other_vars

\* sqs.py:11, 17: message['MessageBody'] or attr_data['DataType'] raises KeyError
GetSizeKeyError ==
    /\ pc = "size_start"
    /\ GetSizeRaises(message)
    /\ pc' = "raised"
    /\ raised' = "KeyError"
    /\ UNCHANGED <<caller, all_messages, original, all_deletes, message_limit,
                   size_limit, base_id, i, message, message_size, current_batch,
                   current_size, current_count, emitted, calls, ret, responses>>
    /\ UNCHANGED other_vars

SizeNext == GetSizeReturn \/ GetSizeKeyError
SizeSpec == SizeInit /\ [][SizeNext]_vars

-----------------------------------------------------------------------------
\* Runs without a size limit

\* sqs.py:36-38, 201: size_limit is None
UnsizedInit == Init /\ size_limit = None
UnsizedSpec == UnsizedInit /\ [][Next]_vars

-----------------------------------------------------------------------------
\* dynamodb.py: batch_yield_items

\* The variables of sqs.py when no function of sqs.py runs
SqsIdle ==
    /\ all_messages = <<>>
    /\ original = <<>>
    /\ all_deletes = <<>>
    /\ message_limit = MESSAGE_LIMIT
    /\ size_limit = None
    /\ base_id = None
    /\ i = 0
    /\ message = EmptyDict
    /\ message_size = 0
    /\ current_batch = <<>>
    /\ current_size = 0
    /\ current_count = 0
    /\ emitted = <<>>
    /\ pc = "idle"
    /\ calls = <<>>
    /\ ret = [Successful |-> <<>>, Failed |-> <<>>]
    /\ raised = ""
    /\ responses = <<>>

\* s[:n] and s[n:] for n >= 0
Take(s, n) == SubSeq(s, 1, IF n < Len(s) THEN n ELSE Len(s))
Drop(s, n) == SubSeq(s, (IF n < Len(s) THEN n ELSE Len(s)) + 1, Len(s))

\* 2 ** n
RECURSIVE Pow2(_)
Pow2(n) == IF n = 0 THEN 1 ELSE 2 * Pow2(n - 1)

Min(a, b) == IF a < b THEN a ELSE b

\* dynamodb.py:179, the default of batch_size
BATCH_SIZE == 100

\* Keys are numbered; the key of number k and the item stored under it
Key(k) == [primary_key |-> k]
Item(k) == [primary_key |-> k, found |-> TRUE]
KeysTo(n) == [k \in 1..n |-> Key(k)]
ItemsOf(keys) == [k \in 1..Len(keys) |-> Item(keys[k].primary_key)]

\* <<all_keys, batch_size, backoff_base, backoff_max>>, times in tenths of a
\* second: generated calls, and the calls of tests/test_dynamodb.py:231-305
DdbCalls ==
    ({KeysTo(n) : n \in 0..MaxKeys} \X ((1..MaxBatchSize) \cup {BATCH_SIZE})
        \X (1..MaxBackoffBase) \X (1..MaxBackoffMax))
    \cup { <<KeysTo(6), BATCH_SIZE, 1, 50>>, <<KeysTo(8), 2, 1, 2>> }

\* The responses of batch_get_item to a request for keys: the items of the keys
\* it processed and, under the table's name, the keys it did not. A response
\* without unprocessed keys has an empty UnprocessedKeys or none at all
BatchGetResponses(keys, may_fail) ==
    UNION { LET found == ItemsOf(Pick(keys, ok, 1))
                rest == Pick(keys, (1..Len(keys)) \ ok, 1)
            IN IF rest = <<>>
               THEN { [Responses |-> found, UnprocessedKeys |-> EmptyDict],
                      [Responses |-> found] }
               ELSE IF may_fail
               THEN { [Responses |-> found, UnprocessedKeys |-> [table |-> rest]] }
               ELSE {}
          : ok \in SUBSET (1..Len(keys)) }

\* resp.get('UnprocessedKeys', {}).get(table_name, [])
UnprocessedOf(resp) ==
    IF "UnprocessedKeys" \in DOMAIN resp /\ "table" \in DOMAIN resp.UnprocessedKeys
    THEN resp.UnprocessedKeys.table
    ELSE <<>>

DdbInit ==
    /\ caller = "batch_yield_items"
    /\ SqsIdle
    /\ kinesis = Idle
    /\ medialive = Idle
    /\ awslambda = Idle
    /\ s3 = Idle
    /\ \E call \in DdbCalls :
          ddb = [pc |-> "while",
                 all_keys |-> call[1],
                 batch_size |-> call[2],
                 backoff_base |-> call[3],
                 backoff_max |-> call[4],
                 i |-> 0,
                 unprocessed_keys |-> call[1],
                 batch_keys |-> <<>>,
                 resp |-> EmptyDict,
                 requests |-> <<>>,   \* history: the Keys of each batch_get_item call
                 sleeps |-> <<>>,     \* history: the argument of each sleep call
                 yielded |-> <<>>,    \* history: the items yielded
                 resps |-> <<>>,      \* history: the responses received
                 retries |-> 0]       \* history: responses with unprocessed keys

\* dynamodb.py:218-222: the slices and the call, with the response of the service
DdbRequest ==
    /\ ddb.pc = "while"
    /\ LET keys == Take(ddb.unprocessed_keys, ddb.batch_size)
       IN \E r \in BatchGetResponses(keys, ddb.retries < MaxRetries) :
             ddb' = [ddb EXCEPT !.pc = "yield_from",
                                !.batch_keys = keys,
                                !.unprocessed_keys = Drop(@, ddb.batch_size),
                                !.resp = r,
                                !.resps = Append(@, r),
                                !.requests = Append(@, keys),
                                !.retries = IF UnprocessedOf(r) = <<>> THEN @ ELSE @ + 1]
    /\ UNCHANGED ddb_others

\* dynamodb.py:223: yield from resp['Responses'][table_name]
DdbYieldFrom ==
    /\ ddb.pc = "yield_from"
    /\ ddb' = [ddb EXCEPT !.pc = "extend", !.yielded = @ \o ddb.resp.Responses]
    /\ UNCHANGED ddb_others

\* dynamodb.py:224-226: nothing is pending, the loop ends
DdbBreak ==
    /\ ddb.pc = "extend"
    /\ ddb.unprocessed_keys \o UnprocessedOf(ddb.resp) = <<>>
    /\ ddb' = [ddb EXCEPT !.pc = "done"]
    /\ UNCHANGED ddb_others

\* DdbBackoff with a delay that is not capped
DdbBackoffUncapped ==
    /\ ddb.pc = "extend"
    /\ ddb.unprocessed_keys \o UnprocessedOf(ddb.resp) # <<>>
    /\ ddb' = [ddb EXCEPT !.pc = "while",
                          !.unprocessed_keys = @ \o UnprocessedOf(ddb.resp),
                          !.sleeps = Append(@, ddb.backoff_base * Pow2(ddb.i)),
                          !.i = @ + 1]
    /\ UNCHANGED ddb_others

\* DdbBackoff that drops the keys reported as unprocessed
DdbBackoffNoRetry ==
    /\ ddb.pc = "extend"
    /\ ddb.unprocessed_keys \o UnprocessedOf(ddb.resp) # <<>>
    /\ ddb' = [ddb EXCEPT !.pc = IF ddb.unprocessed_keys = <<>> THEN "done" ELSE "while",
                          !.sleeps = IF ddb.unprocessed_keys = <<>> THEN @
                                     ELSE Append(@, Min(ddb.backoff_base * Pow2(ddb.i),
                                                        ddb.backoff_max)),
                          !.i = @ + 1]
    /\ UNCHANGED ddb_others

\* DdbBackoff that gives up after the first retry
DdbBackoffGivesUp ==
    /\ ddb.pc = "extend"
    /\ ddb.unprocessed_keys \o UnprocessedOf(ddb.resp) # <<>>
    /\ ddb' = [ddb EXCEPT !.pc = IF ddb.retries > 1 THEN "done" ELSE "while",
                          !.unprocessed_keys = @ \o UnprocessedOf(ddb.resp),
                          !.sleeps = Append(@, Min(ddb.backoff_base * Pow2(ddb.i),
                                                   ddb.backoff_max)),
                          !.i = @ + 1]
    /\ UNCHANGED ddb_others

\* dynamodb.py:224-228: keys are pending: extend, sleep, count, loop
DdbBackoff ==
    /\ ddb.pc = "extend"
    /\ ddb.unprocessed_keys \o UnprocessedOf(ddb.resp) # <<>>
    /\ ddb' = [ddb EXCEPT !.pc = "while",
                          !.unprocessed_keys = @ \o UnprocessedOf(ddb.resp),
                          !.sleeps = Append(@, Min(ddb.backoff_base * Pow2(ddb.i),
                                                   ddb.backoff_max)),
                          !.i = @ + 1]
    /\ UNCHANGED ddb_others

DdbNext == DdbRequest \/ DdbYieldFrom \/ DdbBreak \/ DdbBackoff
DdbSpec == DdbInit /\ [][DdbNext]_vars

\* The runs of batch_yield_items checked for termination: the consumer goes on
\* pulling, every step that is ready is taken, and the service reports
\* unprocessed keys in at most MaxRetries of its responses
DdbFairSpec == DdbInit /\ [][DdbNext]_vars /\ WF_vars(DdbNext)

-----------------------------------------------------------------------------
\* kinesis.py: yield_all_shards

\* kwargs.pop(k, None)
Pop(d, k) == [x \in (DOMAIN d) \ {k} |-> d[x]]

\* tests/test_kinesis.py:20-27: the parameters a caller can pass to list_shards,
\* the timestamp as a date
ListShardsParams ==
    [StreamName |-> "example-stream",
     StreamARN |-> "arn:aws:kinesis:::stream/example-stream",
     ExclusiveStartShardId |-> "shard-0001",
     StreamCreationTimestamp |-> "2022-09-02",
     MaxResults |-> 2,
     NextToken |-> <<0>>]

\* The kwargs of the calls explored: every choice among the parameters
ListShardsKwargs ==
    { [k \in keys |-> ListShardsParams[k]] : keys \in SUBSET (DOMAIN ListShardsParams) }

\* The token the service gives with page p
PageToken(p) == <<p>>

Shard(k) == [ShardId |-> k]

\* The responses of list_shards for page p when `listed` shards have been listed
\* before: the next shards, if any, under Shards, and a NextToken unless the page
\* is the last
ListShardsResponses(p, listed) ==
    LET shards(n) == [k \in 1..n |-> Shard(listed + k)]
        bodies == {[Shards |-> shards(n)] : n \in 0..MaxPageShards} \cup {EmptyDict}
    IN bodies \cup (IF p < MaxListPages
                     THEN {b @@ [NextToken |-> PageToken(p)] : b \in bodies}
                     ELSE {})

\* resp.get('Shards', [])
ShardsOf(resp) == IF "Shards" \in DOMAIN resp THEN resp.Shards ELSE <<>>

ShardsInit ==
    /\ caller = "yield_all_shards"
    /\ SqsIdle
    /\ ddb = Idle
    /\ medialive = Idle
    /\ awslambda = Idle
    /\ s3 = Idle
    /\ \E kw \in ListShardsKwargs :
          kinesis = [pc |-> "while",
                     kwargs |-> kw,
                     resp |-> EmptyDict,
                     original |-> kw,     \* history: kwargs as passed in
                     requests |-> <<>>,   \* history: the kwargs of each list_shards call
                     resps |-> <<>>,      \* history: the responses received
                     yielded |-> <<>>]    \* history: the shards yielded

\* ShardsRequest that sends the kwargs as they are
ShardsRequestKeepsAll ==
    /\ kinesis.pc = "while"
    /\ \E r \in ListShardsResponses(Len(kinesis.requests) + 1, Len(kinesis.yielded)) :
          kinesis' = [kinesis EXCEPT !.pc = "yield_from",
                                    !.resp = r,
                                    !.requests = Append(@, kinesis.kwargs),
                                    !.resps = Append(@, r)]
    /\ UNCHANGED kinesis_others

\* ShardsRequest that keeps only the NextToken once it has one
ShardsRequestTokenOnly ==
    /\ kinesis.pc = "while"
    /\ LET kw == IF "NextToken" \in DOMAIN kinesis.kwargs
                 THEN [NextToken |-> kinesis.kwargs.NextToken]
                 ELSE kinesis.kwargs
       IN \E r \in ListShardsResponses(Len(kinesis.requests) + 1, Len(kinesis.yielded)) :
             kinesis' = [kinesis EXCEPT !.pc = "yield_from",
                                       !.kwargs = kw,
                                       !.resp = r,
                                       !.requests = Append(@, kw),
                                       !.resps = Append(@, r)]
    /\ UNCHANGED kinesis_others

\* kinesis.py:32-37: the parameters that exclude NextToken are dropped, then the call
ShardsRequest ==
    /\ kinesis.pc = "while"
    /\ LET kw == IF "NextToken" \in DOMAIN kinesis.kwargs
                 THEN Pop(Pop(Pop(kinesis.kwargs, "StreamName"),
                              "ExclusiveStartShardId"), "StreamCreationTimestamp")
                 ELSE kinesis.kwargs
       IN \E r \in ListShardsResponses(Len(kinesis.requests) + 1, Len(kinesis.yielded)) :
             kinesis' = [kinesis EXCEPT !.pc = "yield_from",
                                       !.kwargs = kw,
                                       !.resp = r,
                                       !.requests = Append(@, kw),
                                       !.resps = Append(@, r)]
    /\ UNCHANGED kinesis_others

\* kinesis.py:38: yield from resp.get('Shards', [])
ShardsYieldFrom ==
    /\ kinesis.pc = "yield_from"
    /\ kinesis' = [kinesis EXCEPT !.pc = "token", !.yielded = @ \o ShardsOf(kinesis.resp)]
    /\ UNCHANGED kinesis_others

\* kinesis.py:40-42: no NextToken, the loop ends
ShardsBreak ==
    /\ kinesis.pc = "token"
    /\ "NextToken" \notin DOMAIN kinesis.resp
    /\ kinesis' = [kinesis EXCEPT !.pc = "done"]
    /\ UNCHANGED kinesis_others

\* kinesis.py:40-43: the NextToken goes into kwargs for the next call
ShardsNextPage ==
    /\ kinesis.pc = "token"
    /\ "NextToken" \in DOMAIN kinesis.resp
    /\ kinesis' = [kinesis EXCEPT !.pc = "while",
                                  !.kwargs = SetItem(@, "NextToken", kinesis.resp.NextToken)]
    /\ UNCHANGED kinesis_others

ShardsNext == ShardsRequest \/ ShardsYieldFrom \/ ShardsBreak \/ ShardsNextPage
ShardsSpec == ShardsInit /\ [][ShardsNext]_vars

-----------------------------------------------------------------------------
\* kinesis.py: yield_available_stream_records over yield_available_shard_records

\* Record number k of the shard listed at position sh
StreamRecord(sh, k) == [PartitionKey |-> sh, SequenceNumber |-> k]

\* The get_records responses of a shard with n available records, at most len
\* per page: MillisBehindLatest is 0 on the last page only; with lead, a first
\* page without a Records list comes before them
RecordPages(sh, n, len, lead) ==
    LET count == IF n = 0 THEN 1 ELSE (n + len - 1) \div len
        page(p) == [Records |-> [k \in 1..Min(len, n - len * (p - 1)) |->
                                     StreamRecord(sh, len * (p - 1) + k)],
                    MillisBehindLatest |-> IF p = count THEN 0 ELSE 1]
    IN (IF lead THEN <<[MillisBehindLatest |-> 1]>> ELSE <<>>)
       \o [p \in 1..count |-> page(p)]

\* tests/test_kinesis.py:162-252: shard-a with two records, shard-b with three,
\* each on one page
TestStream ==
    << <<[Records |-> <<StreamRecord(1, 1), StreamRecord(1, 2)>>,
          MillisBehindLatest |-> 0]>>,
       <<[Records |-> <<StreamRecord(2, 1), StreamRecord(2, 2), StreamRecord(2, 3)>>,
          MillisBehindLatest |-> 0]>> >>

\* The streams read: for each listed shard the pages get_records gives for it
Streams ==
    { [sh \in 1..Len(counts) |-> RecordPages(sh, counts[sh], len, lead)] :
        counts \in SeqsUpTo(0..MaxShardRecords, MaxShards),
        len \in 1..MaxPageLen,
        lead \in BOOLEAN }
    \cup {TestStream}

\* resp.get('Records', [])
RecordsOf(resp) == IF "Records" \in DOMAIN resp THEN resp.Records ELSE <<>>

\* kinesis.py:73-78, next() of a yield_available_shard_records generator that has
\* yielded pos records of page number page of pages (page 0: not started): the
\* record it yields and where it then stands, or ended when it returns
RECURSIVE NextRecord(_, _, _)
NextRecord(pages, page, pos) ==
    IF page = 0 THEN NextRecord(pages, 1, 0)
    ELSE IF pos < Len(RecordsOf(pages[page]))
    THEN [ended |-> FALSE, value |-> RecordsOf(pages[page])[pos + 1],
          page |-> page, pos |-> pos + 1]
    ELSE IF pages[page].MillisBehindLatest = 0
    THEN [ended |-> TRUE, page |-> page, pos |-> pos]
    ELSE NextRecord(pages, page + 1, 0)

StreamInit ==
    /\ caller = "yield_available_stream_records"
    /\ SqsIdle
    /\ ddb = Idle
    /\ medialive = Idle
    /\ awslambda = Idle
    /\ s3 = Idle
    /\ \E stream \in Streams :
          kinesis = [pc |-> "list",
                     stream |-> stream,          \* what the service holds
                     all_shard_records |-> <<>>, \* kinesis.py:128, the generators
                     active |-> <<>>,            \* zip_longest: not yet run out
                     slot |-> 1,                 \* zip_longest: the next to ask
                     values |-> <<>>,            \* zip_longest: the tuple in the making
                     yielded |-> <<>>]           \* history: the records yielded

\* kinesis.py:123-135: one generator per listed shard, none started; zip_longest
\* over no generator ends at once
StreamListShards ==
    /\ kinesis.pc = "list"
    /\ kinesis' = [kinesis EXCEPT
          !.pc = IF kinesis.stream = <<>> THEN "done" ELSE "zip",
          !.all_shard_records = [sh \in 1..Len(kinesis.stream) |-> [page |-> 0, pos |-> 0]],
          !.active = [sh \in 1..Len(kinesis.stream) |-> TRUE]]
    /\ UNCHANGED kinesis_others

\* StreamPull that ends with the first generator that runs out, as zip does
StreamPullZip ==
    /\ kinesis.pc = "zip"
    /\ LET sh == kinesis.slot
           nxt == NextRecord(kinesis.stream[sh], kinesis.all_shard_records[sh].page,
                             kinesis.all_shard_records[sh].pos)
       IN IF nxt.ended
          THEN kinesis' = [kinesis EXCEPT !.pc = "done"]
          ELSE kinesis' = [kinesis EXCEPT
                  !.all_shard_records[sh] = [page |-> nxt.page, pos |-> nxt.pos],
                  !.values = Append(@, Some(nxt.value)),
                  !.slot = @ + 1,
                  !.pc = IF sh = Len(kinesis.stream) THEN "yield" ELSE "zip"]
    /\ UNCHANGED kinesis_others

\* kinesis.py:135, zip_longest asks the generator at slot for its next record: a
\* generator that has run out gives None from then on, and zip_longest ends when
\* the last one runs out
StreamPull ==
    /\ kinesis.pc = "zip"
    /\ LET sh == kinesis.slot
           nxt == NextRecord(kinesis.stream[sh], kinesis.all_shard_records[sh].page,
                             kinesis.all_shard_records[sh].pos)
           last == sh = Len(kinesis.stream)
           others == \E o \in 1..Len(kinesis.stream) : o # sh /\ kinesis.active[o]
       IN IF ~kinesis.active[sh]
          THEN kinesis' = [kinesis EXCEPT !.values = Append(@, None),
                                         !.slot = @ + 1,
                                         !.pc = IF last THEN "yield" ELSE "zip"]
          ELSE IF ~nxt.ended
          THEN kinesis' = [kinesis EXCEPT
                  !.all_shard_records[sh] = [page |-> nxt.page, pos |-> nxt.pos],
                  !.values = Append(@, Some(nxt.value)),
                  !.slot = @ + 1,
                  !.pc = IF last THEN "yield" ELSE "zip"]
          ELSE IF others
          THEN kinesis' = [kinesis EXCEPT
                  !.all_shard_records[sh] = [page |-> nxt.page, pos |-> nxt.pos],
                  !.active[sh] = FALSE,
                  !.values = Append(@, None),
                  !.slot = @ + 1,
                  !.pc = IF last THEN "yield" ELSE "zip"]
          ELSE kinesis' = [kinesis EXCEPT !.active[sh] = FALSE, !.pc = "done"]
    /\ UNCHANGED kinesis_others

\* The items of a tuple that are not None, in order
RECURSIVE NotNone(_)
NotNone(values) ==
    IF values = <<>> THEN <<>>
    ELSE (IF Head(values) = None THEN <<>> ELSE <<Head(values)[1]>>) \o NotNone(Tail(values))

\* kinesis.py:135-137: the tuple is chained and its items that are not None are
\* yielded, then zip_longest makes the next tuple
StreamYield ==
    /\ kinesis.pc = "yield"
    /\ kinesis' = [kinesis EXCEPT !.pc = "zip",
                                  !.yielded = @ \o NotNone(kinesis.values),
                                  !.values = <<>>,
                                  !.slot = 1]
    /\ UNCHANGED kinesis_others

StreamNext == StreamListShards \/ StreamPull \/ StreamYield
StreamSpec == StreamInit /\ [][StreamNext]_vars

-----------------------------------------------------------------------------
\* medialive.py: _parse_action_chains, delete_schedule_action_chain

\* 'chain_1', 'chain_1_1', 'chain_1_1_1', 'chain_1_2', 'chain_2', 'chain_3'
Chain1 == <<99, 104, 97, 105, 110, 95, 49>>
Chain11 == Chain1 \o <<95, 49>>
Chain111 == Chain11 \o <<95, 49>>
Chain12 == Chain1 \o <<95, 50>>
Chain2 == <<99, 104, 97, 105, 110, 95, 50>>
Chain3 == <<99, 104, 97, 105, 110, 95, 51>>

\* 'B', 'a', 'ab', 'b': the names of the generated schedules
ActionNames == { <<66>>, <<97>>, <<97, 98>>, <<98>> }

\* A schedule action that starts at a fixed time, and one that follows action ref
FixedAction(name) ==
    [ActionName |-> name,
     ScheduleActionStartSettings |->
         [FixedModeScheduleActionStartSettings |-> [Time |-> "2018-11-05T16:10:30.000Z"]]]
FollowAction(name, ref) ==
    [ActionName |-> name,
     ScheduleActionStartSettings |->
         [FollowModeScheduleActionStartSettings |->
             [ReferenceActionName |-> ref, FollowPoint |-> "END"]]]

\* tests/test_medialive.py:8-58
TEST_SCHEDULE_ACTIONS ==
    << FixedAction(Chain1), FollowAction(Chain11, Chain1), FollowAction(Chain111, Chain11),
       FollowAction(Chain12, Chain1), FixedAction(Chain2) >>

\* follows applied n times to name
RECURSIVE FollowedUp(_, _, _)
FollowedUp(follows, name, n) ==
    IF n = 0 THEN name ELSE FollowedUp(follows, follows[name], n - 1)

\* a < b for str
RECURSIVE LexLess(_, _)
LexLess(a, b) ==
    IF b = <<>> THEN FALSE
    ELSE IF a = <<>> THEN TRUE
    ELSE IF Head(a) # Head(b) THEN Head(a) < Head(b)
    ELSE LexLess(Tail(a), Tail(b))

\* The names in descending order, another order describe_schedule can list them in
RECURSIVE SortedNamesDescending(_)
SortedNamesDescending(names) ==
    IF names = {} THEN <<>>
    ELSE LET first == CHOOSE x \in names : \A y \in names : x = y \/ LexLess(y, x)
         IN <<first>> \o SortedNamesDescending(names \ {first})

\* sorted(names) for a set of str
RECURSIVE SortedNames(_)
SortedNames(names) ==
    IF names = {} THEN <<>>
    ELSE LET first == CHOOSE x \in names : \A y \in names : x = y \/ LexLess(x, y)
         IN <<first>> \o SortedNames(names \ {first})

\* The ways the actions named names can follow each other: an action is fixed
\* (follows[name] = name) or follows another action of the schedule, and none
\* follows itself through others
Forests(names) ==
    { f \in [names -> names] :
        \A a \in names : LET top == FollowedUp(f, a, Cardinality(names))
                          IN f[top] = top }

ActionsOf(order, follows) ==
    [k \in 1..Len(order) |->
        IF follows[order[k]] = order[k] THEN FixedAction(order[k])
        ELSE FollowAction(order[k], follows[order[k]])]

\* The schedules describe_schedule lists: generated ones over ActionNames, in
\* two listing orders, and the schedule of the tests
Schedules ==
    UNION { { ActionsOf(order, follows) :
                follows \in Forests(names),
                order \in {SortedNames(names), SortedNamesDescending(names)} }
          : names \in { n \in SUBSET ActionNames : Cardinality(n) <= MaxActions } }
    \cup {TEST_SCHEDULE_ACTIONS}

\* <<eml_actions, delete_action_name, dry_run>> of the calls explored
ChainCalls ==
    UNION { { <<sched, name, dry>> :
                name \in IF sched = TEST_SCHEDULE_ACTIONS
                         THEN {Chain1, Chain11, Chain111, Chain12, Chain2, Chain3}
                         ELSE ActionNames,
                dry \in BOOLEAN }
          : sched \in Schedules }

\* json_search(PARENT_ACTION_PATH, schedule_action): None when the path is absent
SearchParent(schedule_action) ==
    LET start == schedule_action.ScheduleActionStartSettings
    IN IF "FollowModeScheduleActionStartSettings" \in DOMAIN start
          /\ "ReferenceActionName" \in DOMAIN start.FollowModeScheduleActionStartSettings
       THEN Some(start.FollowModeScheduleActionStartSettings.ReferenceActionName)
       ELSE None

\* medialive.py:16-20
ParentMap(eml_actions) ==
    LET names == { eml_actions[k].ActionName : k \in 1..Len(eml_actions) }
        action(n) == CHOOSE a \in { eml_actions[k] : k \in 1..Len(eml_actions) } :
                        a.ActionName = n
    IN [n \in names |->
          IF SearchParent(action(n)) = None THEN n ELSE SearchParent(action(n))[1]]

\* medialive.py:26-30: the names the walk from parent_name passes
RECURSIVE WalkUp(_, _)
WalkUp(parent_map, parent_name) ==
    {parent_name} \cup (IF parent_name = parent_map[parent_name] THEN {}
                        ELSE WalkUp(parent_map, parent_map[parent_name]))

\* ChildrenMap with the walk stopped at the action followed directly
ChildrenMapOneLevel(parent_map) ==
    [n \in DOMAIN parent_map |->
        { a \in DOMAIN parent_map : a = n \/ parent_map[a] = n }]

\* medialive.py:22-30
ChildrenMap(parent_map) ==
    [n \in DOMAIN parent_map |->
        { a \in DOMAIN parent_map : a = n \/ n \in WalkUp(parent_map, parent_map[a]) }]

ChainInit ==
    /\ caller = "delete_schedule_action_chain"
    /\ SqsIdle
    /\ ddb = Idle
    /\ kinesis = Idle
    /\ awslambda = Idle
    /\ s3 = Idle
    /\ \E call \in ChainCalls :
          medialive = [pc |-> "describe",
                       schedule |-> call[1],     \* what describe_schedule lists
                       delete_action_name |-> call[2],
                       dry_run |-> call[3],
                       parent_map |-> EmptyDict,
                       children_map |-> EmptyDict,
                       all_deletes |-> <<>>,
                       updates |-> <<>>,   \* history: the ActionNames of each
                                           \* batch_update_schedule call
                       ret |-> None,
                       raised |-> ""]

\* medialive.py:62-65
ChainParse ==
    /\ medialive.pc = "describe"
    /\ medialive' = [medialive EXCEPT
          !.pc = "parsed",
          !.parent_map = ParentMap(medialive.schedule),
          !.children_map = ChildrenMap(ParentMap(medialive.schedule))]
    /\ UNCHANGED medialive_others

\* ChainNotFound that asks for the deletion before it raises
ChainNotFoundCalls ==
    /\ medialive.pc = "parsed"
    /\ medialive.delete_action_name \notin DOMAIN medialive.parent_map
    /\ medialive' = [medialive EXCEPT !.pc = "raised", !.raised = "ValueError",
                                      !.updates = Append(@, <<medialive.delete_action_name>>)]
    /\ UNCHANGED medialive_others

\* medialive.py:67-70
ChainNotFound ==
    /\ medialive.pc = "parsed"
    /\ medialive.delete_action_name \notin DOMAIN medialive.parent_map
    /\ medialive' = [medialive EXCEPT !.pc = "raised", !.raised = "ValueError"]
    /\ UNCHANGED medialive_others

\* medialive.py:72-79 with dry_run true
ChainDryRun ==
    /\ medialive.pc = "parsed"
    /\ medialive.delete_action_name \in DOMAIN medialive.parent_map
    /\ medialive.dry_run
    /\ LET deletes == SortedNames(medialive.children_map[medialive.delete_action_name])
       IN medialive' = [medialive EXCEPT !.pc = "done",
                                        !.all_deletes = deletes,
                                        !.ret = Some(deletes)]
    /\ UNCHANGED medialive_others

\* medialive.py:72-79 with dry_run false
ChainDelete ==
    /\ medialive.pc = "parsed"
    /\ medialive.delete_action_name \in DOMAIN medialive.parent_map
    /\ ~medialive.dry_run
    /\ LET deletes == SortedNames(medialive.children_map[medialive.delete_action_name])
       IN medialive' = [medialive EXCEPT !.pc = "done",
                                        !.all_deletes = deletes,
                                        !.updates = Append(@, deletes),
                                        !.ret = Some(deletes)]
    /\ UNCHANGED medialive_others

ChainNext == ChainParse \/ ChainNotFound \/ ChainDryRun \/ ChainDelete
ChainSpec == ChainInit /\ [][ChainNext]_vars

\* _parse_action_chains step by step

\* The schedules in which every follow-mode action refers to an action of the
\* schedule, reference cycles included, and the schedule of the tests
ReferenceSchedules ==
    UNION { { ActionsOf(order, follows) :
                follows \in [names -> names],
                order \in {SortedNames(names), SortedNamesDescending(names)} }
          : names \in { n \in SUBSET ActionNames : Cardinality(n) <= MaxActions } }
    \cup {TEST_SCHEDULE_ACTIONS}

\* children_map[key].add(name) for a defaultdict(set)
AddChild(children_map, key, name) ==
    [k \in DOMAIN children_map \cup {key} |->
        IF k = key
        THEN (IF key \in DOMAIN children_map THEN children_map[key] ELSE {}) \cup {name}
        ELSE children_map[k]]

ParseInit ==
    /\ caller = "_parse_action_chains"
    /\ SqsIdle
    /\ ddb = Idle
    /\ kinesis = Idle
    /\ awslambda = Idle
    /\ s3 = Idle
    /\ \E eml_actions \in ReferenceSchedules :
          medialive = [pc |-> "start",
                       schedule |-> eml_actions,
                       parent_map |-> EmptyDict,
                       children_map |-> EmptyDict,
                       items |-> <<>>,     \* what is left of parent_map.items()
                       action_name |-> None,
                       parent_name |-> None,
                       steps |-> 0]        \* history: passes of the while loop
                                           \* for the action at hand

\* medialive.py:16-22
ParseParents ==
    /\ medialive.pc = "start"
    /\ medialive' = [medialive EXCEPT
          !.pc = "for",
          !.parent_map = ParentMap(medialive.schedule),
          !.children_map = EmptyDict,
          !.items = [k \in 1..Len(medialive.schedule) |-> medialive.schedule[k].ActionName]]
    /\ UNCHANGED medialive_others

\* medialive.py:23-24
ParseNextItem ==
    /\ medialive.pc = "for"
    /\ medialive.items # <<>>
    /\ LET name == Head(medialive.items)
       IN medialive' = [medialive EXCEPT
             !.pc = "while",
             !.items = Tail(@),
             !.action_name = Some(name),
             !.parent_name = Some(medialive.parent_map[name]),
             !.children_map = AddChild(@, name, name),
             !.steps = 0]
    /\ UNCHANGED medialive_others

\* medialive.py:26-29: the walk has reached an action that is its own parent
ParseBreak ==
    /\ medialive.pc = "while"
    /\ medialive.parent_name[1] = medialive.parent_map[medialive.parent_name[1]]
    /\ medialive' = [medialive EXCEPT
          !.pc = "for",
          !.children_map = AddChild(@, medialive.parent_name[1], medialive.action_name[1]),
          !.steps = @ + 1]
    /\ UNCHANGED medialive_others

\* ParseClimb that does not move to the parent
ParseClimbStays ==
    /\ medialive.pc = "while"
    /\ medialive.parent_name[1] # medialive.parent_map[medialive.parent_name[1]]
    /\ medialive' = [medialive EXCEPT
          !.children_map = AddChild(@, medialive.parent_name[1], medialive.action_name[1]),
          !.steps = IF @ < MaxActions + 1 THEN @ + 1 ELSE @]
    /\ UNCHANGED medialive_others

\* medialive.py:26-30: the walk goes one action up. The count of passes stops
\* at MaxActions + 1, more than a walk without a cycle can make
ParseClimb ==
    /\ medialive.pc = "while"
    /\ medialive.parent_name[1] # medialive.parent_map[medialive.parent_name[1]]
    /\ medialive' = [medialive EXCEPT
          !.children_map = AddChild(@, medialive.parent_name[1], medialive.action_name[1]),
          !.parent_name = Some(medialive.parent_map[medialive.parent_name[1]]),
          !.steps = IF @ < MaxActions + 1 THEN @ + 1 ELSE @]
    /\ UNCHANGED medialive_others

\* medialive.py:32
ParseReturn ==
    /\ medialive.pc = "for"
    /\ medialive.items = <<>>
    /\ medialive' = [medialive EXCEPT !.pc = "returned"]
    /\ UNCHANGED medialive_others

ParseNext == ParseParents \/ ParseNextItem \/ ParseBreak \/ ParseClimb \/ ParseReturn

\* The interpreter runs every step that is ready
ParseSpec == ParseInit /\ [][ParseNext]_vars /\ WF_vars(ParseNext)

-----------------------------------------------------------------------------
\* awslambda.py: publish_version_limited

\* int(s) for a str of decimal digits
RECURSIVE IntOf(_)
IntOf(s) ==
    IF s = <<>> THEN 0 ELSE 10 * IntOf(SubSeq(s, 1, Len(s) - 1)) + (s[Len(s)] - 48)

\* seq[:stop]: a negative stop counts from the end, and -0 is 0
SliceTo(seq, stop) ==
    LET to == IF stop < 0 THEN Len(seq) + stop ELSE stop
    IN SubSeq(seq, 1, IF to < 0 THEN 0 ELSE IF to > Len(seq) THEN Len(seq) ELSE to)

\* The item of list_versions_by_function for version number v
VersionInfo(v) == [Version |-> Decimal(v)]

\* sorted(): x put into the sorted list after the items whose key is not larger
RECURSIVE InsertByVersion(_, _)
InsertByVersion(sorted, x) ==
    IF sorted = <<>> THEN <<x>>
    ELSE IF IntOf(sorted[Len(sorted)].Version) <= IntOf(x.Version) THEN Append(sorted, x)
    ELSE Append(InsertByVersion(SubSeq(sorted, 1, Len(sorted) - 1), x), sorted[Len(sorted)])

\* sorted(items, key=lambda x: int(x['Version']))
RECURSIVE SortedByVersion(_)
SortedByVersion(items) ==
    IF items = <<>> THEN <<>>
    ELSE InsertByVersion(SortedByVersion(SubSeq(items, 1, Len(items) - 1)), items[Len(items)])

\* The version numbers a function can have before the call: '9' sorts after
\* '10' as a str and before it as a number
VersionNumbers == {1, 2, 9, 10}

\* tests/test_awslambda.py:65-76 lists versions 1 to 5: 1 to 4 and the new one
TestVersions == {1, 2, 3, 4}

\* <<versions of the function, keep_count>> of the calls explored
LambdaCalls ==
    ({ vs \in SUBSET VersionNumbers : Cardinality(vs) <= MaxVersions } \X (0..MaxKeepCount))
    \cup {<<TestVersions, 2>>}

\* The orders in which the service can list the versions vs
Listings(vs) ==
    { [k \in 1..Cardinality(vs) |-> VersionInfo(f[k])] :
        f \in { g \in [1..Cardinality(vs) -> vs] :
                  \A a, b \in 1..Cardinality(vs) : g[a] = g[b] => a = b } }

LambdaInit ==
    /\ caller = "publish_version_limited"
    /\ SqsIdle
    /\ ddb = Idle
    /\ kinesis = Idle
    /\ medialive = Idle
    /\ s3 = Idle
    /\ \E call \in LambdaCalls :
          awslambda = [pc |-> "publish",
                       versions |-> call[1],   \* the version numbers the service holds
                       keep_count |-> call[2],
                       publish_resp |-> None,
                       all_versions |-> <<>>,
                       pending |-> <<>>,   \* what is left of all_versions[:-keep_count]
                       calls |-> <<>>,     \* history: the client calls, in order
                       ret |-> None]

\* awslambda.py:78-79: the service numbers the new version after the highest, or
\* answers with the latest version when nothing has changed since
LambdaPublish ==
    /\ awslambda.pc = "publish"
    /\ \E v \in awslambda.versions \cup
                 {IF awslambda.versions = {} THEN 1
                  ELSE 1 + CHOOSE m \in awslambda.versions : \A w \in awslambda.versions : w <= m} :
          /\ v \in awslambda.versions => \A w \in awslambda.versions : w <= v
          /\ awslambda' = [awslambda EXCEPT
                !.pc = "list",
                !.versions = @ \cup {v},
                !.publish_resp = Some(VersionInfo(v)),
                !.calls = Append(@, <<"publish_version">>)]
    /\ UNCHANGED awslambda_others

\* awslambda.py:82-90
LambdaList ==
    /\ awslambda.pc = "list"
    /\ \E listing \in Listings(awslambda.versions) :
          awslambda' = [awslambda EXCEPT
                !.pc = "listed",
                !.all_versions = SortedByVersion(listing),
                !.calls = Append(@, <<"list_versions_by_function">>)]
    /\ UNCHANGED awslambda_others

\* awslambda.py:93-94
LambdaBailOut ==
    /\ awslambda.pc = "listed"
    /\ Len(awslambda.all_versions) <= awslambda.keep_count
    /\ awslambda' = [awslambda EXCEPT !.pc = "done", !.ret = awslambda.publish_resp]
    /\ UNCHANGED awslambda_others

\* awslambda.py:97: the slice the loop runs over
LambdaSlice ==
    /\ awslambda.pc = "listed"
    /\ Len(awslambda.all_versions) > awslambda.keep_count
    /\ awslambda' = [awslambda EXCEPT
          !.pc = "for",
          !.pending = SliceTo(awslambda.all_versions, -awslambda.keep_count)]
    /\ UNCHANGED awslambda_others

\* awslambda.py:97-100: one pass of the loop
LambdaDelete ==
    /\ awslambda.pc = "for"
    /\ awslambda.pending # <<>>
    /\ awslambda' = [awslambda EXCEPT
          !.pending = Tail(@),
          !.versions = @ \ {IntOf(Head(awslambda.pending).Version)},
          !.calls = Append(@, <<"delete_function", Head(awslambda.pending).Version>>)]
    /\ UNCHANGED awslambda_others

\* awslambda.py:102
LambdaReturn ==
    /\ awslambda.pc = "for"
    /\ awslambda.pending = <<>>
    /\ awslambda' = [awslambda EXCEPT !.pc = "done", !.ret = awslambda.publish_resp]
    /\ UNCHANGED awslambda_others

LambdaNext ==
    \/ LambdaPublish
    \/ LambdaList
    \/ LambdaBailOut
    \/ LambdaSlice
    \/ LambdaDelete
    \/ LambdaReturn

LambdaSpec == LambdaInit /\ [][LambdaNext]_vars

-----------------------------------------------------------------------------
\* s3.py: query_object

LF == 10
CR == 13

\* The length of the first line of data, its line break included: a line ends
\* with \n, \r or \r\n, or with the data
RECURSIVE FirstLineLen(_, _)
FirstLineLen(data, k) ==
    IF k > Len(data) THEN Len(data)
    ELSE IF data[k] = LF THEN k
    ELSE IF data[k] = CR THEN (IF k < Len(data) /\ data[k + 1] = LF THEN k + 1 ELSE k)
    ELSE FirstLineLen(data, k + 1)

\* data.splitlines(True)
RECURSIVE SplitLines(_)
SplitLines(data) ==
    IF data = <<>> THEN <<>>
    ELSE LET n == FirstLineLen(data, 1)
         IN <<SubSeq(data, 1, n)>> \o SplitLines(SubSeq(data, n + 1, Len(data)))

\* line.endswith(b'\n')
EndsWithLF(line) == line # <<>> /\ line[Len(line)] = LF

\* json.loads of a line that holds a JSON number: the white space around it is
\* skipped
Loads(line) ==
    IntOf(SelectSeq(line, LAMBDA b : b \in 48..57))

\* The records of the results: numbers, written as one JSON document per line
RecordNumbers == <<1, 23, 4, 5>>

RECURSIVE JsonLines(_)
JsonLines(records) ==
    IF records = <<>> THEN <<>>
    ELSE Decimal(Head(records)) \o <<LF>> \o JsonLines(Tail(records))

\* payload cut into chunks after the positions of cuts
RECURSIVE Chunks(_, _, _)
Chunks(payload, cuts, from) ==
    IF cuts = {} THEN <<SubSeq(payload, from, Len(payload))>>
    ELSE LET c == CHOOSE x \in cuts : \A y \in cuts : x <= y
         IN <<SubSeq(payload, from, c)>> \o Chunks(payload, cuts \ {c}, c + 1)

RecordsEvent(chunk) == [Records |-> [Payload |-> chunk]]
StatsEvent == [Stats |-> EmptyDict]

\* The events of chunks, with a Stats event after the chunks numbered in stats
RECURSIVE EventsOf(_, _, _)
EventsOf(chunks, stats, k) ==
    IF k > Len(chunks) THEN <<>>
    ELSE <<RecordsEvent(chunks[k])>> \o (IF k \in stats THEN <<StatsEvent>> ELSE <<>>)
         \o EventsOf(chunks, stats, k + 1)

\* tests/test_s3.py:13-19 and 39-46 with numbers for records: five records in
\* three events cut inside the third and the fifth, and three records in two
\* events with Stats events after them
TestBasicStream ==
    [records |-> <<1, 2, 33, 4, 55>>,
     events |-> << RecordsEvent(<<49, LF, 50, LF, 51>>),
                   RecordsEvent(<<51, LF, 52, LF, 53>>),
                   RecordsEvent(<<53, LF>>) >>]
TestCustomStream ==
    [records |-> <<1, 2, 33>>,
     events |-> << RecordsEvent(<<49, LF, 50, LF, 51>>), StatsEvent,
                   RecordsEvent(<<51, LF>>), StatsEvent >>]

\* The event streams explored: every result of up to MaxRecords records, cut
\* at up to MaxCuts places, with Stats events between
EventStreams ==
    UNION { UNION { { [records |-> SubSeq(RecordNumbers, 1, n),
                       events |-> EventsOf(Chunks(JsonLines(SubSeq(RecordNumbers, 1, n)),
                                                  cuts, 1),
                                           stats, 1)]
                      : stats \in SUBSET (1..(Cardinality(cuts) + 1)) }
                  : cuts \in { c \in SUBSET (1..(Len(JsonLines(SubSeq(RecordNumbers, 1, n))) - 1)) :
                                 Cardinality(c) <= MaxCuts } }
          : n \in 0..MaxRecords }
    \cup {TestBasicStream, TestCustomStream}

QueryInit ==
    /\ caller = "query_object"
    /\ SqsIdle
    /\ ddb = Idle
    /\ kinesis = Idle
    /\ medialive = Idle
    /\ awslambda = Idle
    /\ \E stream \in EventStreams :
          s3 = [pc |-> "select",
                records |-> stream.records,   \* history: the records of the result
                payload |-> stream.events,    \* what is left of resp['Payload']
                data |-> <<>>,
                lines |-> <<>>,               \* what is left of data.splitlines(True)
                yielded |-> <<>>]             \* history: the records yielded

\* s3.py:75-76
QuerySelect ==
    /\ s3.pc = "select"
    /\ s3' = [s3 EXCEPT !.pc = "for", !.data = <<>>]
    /\ UNCHANGED s3_others

\* s3.py:77-78: an event without Records
QuerySkipEvent ==
    /\ s3.pc = "for"
    /\ s3.payload # <<>>
    /\ "Records" \notin DOMAIN Head(s3.payload)
    /\ s3' = [s3 EXCEPT !.payload = Tail(@)]
    /\ UNCHANGED s3_others

\* s3.py:77-80
QueryRecordsEvent ==
    /\ s3.pc = "for"
    /\ s3.payload # <<>>
    /\ "Records" \in DOMAIN Head(s3.payload)
    /\ LET data == s3.data \o Head(s3.payload).Records.Payload
       IN s3' = [s3 EXCEPT !.pc = "lines",
                           !.payload = Tail(@),
                           !.data = data,
                           !.lines = SplitLines(data)]
    /\ UNCHANGED s3_others

\* s3.py:80-82
QueryYield ==
    /\ s3.pc = "lines"
    /\ s3.lines # <<>>
    /\ EndsWithLF(Head(s3.lines))
    /\ s3' = [s3 EXCEPT !.lines = Tail(@),
                        !.yielded = Append(@, Loads(Head(s3.lines)))]
    /\ UNCHANGED s3_others

\* s3.py:80-84
QueryKeepPartial ==
    /\ s3.pc = "lines"
    /\ s3.lines # <<>>
    /\ ~EndsWithLF(Head(s3.lines))
    /\ s3' = [s3 EXCEPT !.lines = Tail(@), !.data = Head(s3.lines)]
    /\ UNCHANGED s3_others

\* s3.py:80: the lines are exhausted
QueryLinesDone ==
    /\ s3.pc = "lines"
    /\ s3.lines = <<>>
    /\ s3' = [s3 EXCEPT !.pc = "for"]
    /\ UNCHANGED s3_others

\* s3.py:77: the events are exhausted
QueryDone ==
    /\ s3.pc = "for"
    /\ s3.payload = <<>>
    /\ s3' = [s3 EXCEPT !.pc = "done"]
    /\ UNCHANGED s3_others

QueryNext ==
    \/ QuerySelect
    \/ QuerySkipEvent
    \/ QueryRecordsEvent
    \/ QueryYield
    \/ QueryKeepPartial
    \/ QueryLinesDone
    \/ QueryDone

QuerySpec == QueryInit /\ [][QueryNext]_vars

-----------------------------------------------------------------------------
\* Definitions the properties share

RECURSIVE Concat(_)
Concat(batches) ==
    IF batches = <<>> THEN <<>> ELSE Head(batches) \o Concat(Tail(batches))

RECURSIVE SumSizes(_)
SumSizes(batch) ==
    IF batch = <<>> THEN 0 ELSE GetSize(Head(batch)) + SumSizes(Tail(batch))

\* The records the generator has pulled from its source so far, as they are now
Pulled == IF caller = "delete_batches" THEN all_deletes ELSE SubSeq(all_messages, 1, i)

WithoutId(m) == [k \in (DOMAIN m) \ {"Id"} |-> m[k]]

\* pulled record p is the caller's record o, its Id apart
SameRecord(p, o) ==
    IF caller = "delete_batches"
    THEN WithoutId(p) = [ReceiptHandle |-> Get(o, "ReceiptHandle")]
    ELSE WithoutId(p) = WithoutId(o)

\* The number of records in the batches before batch b
Offset(batches, b) == Len(Concat(SubSeq(batches, 1, b - 1)))

SizeLimited == size_limit # None

\* The batches made so far, the open one last: the emitted ones, then the current
\* batch when it is not among them, or the record that waits at the yield of line 45
BatchesSoFar ==
    IF pc = "for" /\ current_batch # <<>> THEN Append(emitted, current_batch)
    ELSE IF pc = "yield45" THEN Append(emitted, <<message>>)
    ELSE emitted

-----------------------------------------------------------------------------
\* C1: concatenating the batches emitted by _get_batches, in emission order,
\* gives the input sequence: when the run ends every input record has been pulled
\* and the emitted batches hold exactly the pulled records, in order; and at every
\* point of the run the emitted batches, followed by the open batch or the
\* record waiting at a yield, are the records pulled so far.
C1_BatchesReproduceInput ==
    /\ pc = "done" =>
          /\ i = Len(original)
          /\ Len(Pulled) = Len(original)
          /\ Concat(emitted) = Pulled
    /\ pc \in {"for", "yield45", "yield55"} => Concat(BatchesSoFar) = Pulled
    /\ pc # "start" => \A k \in 1..Len(Pulled) : SameRecord(Pulled[k], original[k])
    /\ raised = "KeyError" => SizeLimited /\ GetSizeRaises(message)

C1_Witness ==
    /\ pc = "done"
    /\ SizeLimited
    /\ Len(original) = 3
    /\ Len(emitted) = 2
    /\ Len(emitted[1]) = 2

\* C2: no emitted batch (nor the open one) holds more than message_limit
\* records, with and without a size limit.
C2_CountCap ==
    /\ \A b \in 1..Len(emitted) : Len(emitted[b]) <= message_limit
    /\ Len(current_batch) <= message_limit

C2_Witness ==
    /\ SizeLimited
    /\ message_limit >= 2
    /\ Len(emitted) >= 2
    /\ Len(emitted[1]) = message_limit
    /\ SumSizes(emitted[1]) + GetSize(emitted[2][1]) <= size_limit[1]

\* C3: with a size limit, the sizes of the records of every emitted batch add up
\* to at most size_limit, unless the batch is one record that is itself larger
\* than size_limit.
C3_SizeCap ==
    SizeLimited =>
        \A b \in 1..Len(emitted) :
            \/ SumSizes(emitted[b]) <= size_limit[1]
            \/ Len(emitted[b]) = 1 /\ GetSize(emitted[b][1]) > size_limit[1]

C3_Witness ==
    /\ SizeLimited
    /\ pc = "done"
    /\ \E b \in 1..Len(emitted) :
          Len(emitted[b]) >= 2 /\ SumSizes(emitted[b]) = size_limit[1]
    /\ \E b \in 1..Len(emitted) : SumSizes(emitted[b]) > size_limit[1]

\* C4: a record larger than size_limit is emitted as the only record of its
\* batch, wherever it stands in the input: at the end of the run the batch at its
\* position is that record alone, and during the run it is never in a batch with
\* another record.
C4_OversizedAlone ==
    SizeLimited =>
        /\ \A b \in 1..Len(BatchesSoFar) :
              (\E k \in 1..Len(BatchesSoFar[b]) :
                  GetSize(BatchesSoFar[b][k]) > size_limit[1])
              => Len(BatchesSoFar[b]) = 1
        /\ pc = "done" =>
              /\ i = Len(original)
              /\ \A k \in 1..Len(Pulled) :
                    GetSize(Pulled[k]) > size_limit[1] =>
                        \E b \in 1..Len(emitted) :
                            /\ Offset(emitted, b) = k - 1
                            /\ emitted[b] = <<Pulled[k]>>

\* an oversized record between two records that fit
C4_Witness ==
    /\ SizeLimited
    /\ pc = "done"
    /\ Len(original) = 3
    /\ Len(emitted) = 3
    /\ GetSize(emitted[2][1]) > size_limit[1]
    /\ GetSize(emitted[1][1]) + GetSize(emitted[3][1]) <= size_limit[1]

\* C5: the size check is strict. In an iteration where the count limit is not
\* reached, a record that brings the batch's size to size_limit or less, to
\* exactly size_limit included, is appended to the current batch, and the batch
\* is closed only when its size plus the record's is greater than size_limit; the
\* records of 10, 10, 10, 10 and 9 bytes of the test, with message_limit 5 and
\* size_limit 49, form one batch of 5.
C5_StrictSizeCheck ==
    /\ [][ ( /\ pc = "for"
             /\ i' = i + 1
             /\ raised' = ""
             /\ SizeLimited
             /\ current_batch # <<>>
             /\ current_count # message_limit )
           => LET total == SumSizes(current_batch) + GetSize(message')
              IN /\ total <= size_limit[1] =>
                        /\ pc' = "for"
                        /\ emitted' = emitted
                        /\ current_batch' = Append(current_batch, message')
                 /\ pc' = "yield45" => total > size_limit[1] ]_vars
    /\ []( ( /\ original = TestSendMessages
             /\ message_limit = 5
             /\ size_limit = Some(49)
             /\ emitted # <<>> )
           => emitted[1] = SubSeq(all_messages, 1, 5) )

\* the fifth record of the test brings the batch to exactly 49 bytes
C5_Witness ==
    /\ original = TestSendMessages
    /\ message_limit = 5
    /\ size_limit = Some(49)
    /\ pc = "for"
    /\ i = 5
    /\ Len(current_batch) = 5
    /\ SumSizes(current_batch) = 49

\* C6: the number of batches emitted is the least number of consecutive groups
\* the input can be cut into when every group has at most message_limit records
\* and either a total size of at most size_limit or a single record.
Feasible(group, count_limit, limit) ==
    /\ Len(group) <= count_limit
    /\ \/ limit = None
       \/ Len(group) = 1
       \/ SumSizes(group) <= limit[1]

SetMin(S) == CHOOSE x \in S : \A y \in S : x <= y

\* <<the least number of feasible groups records[k+1 ..] can be cut into,
\*   for k = from, from + 1, .. Len(records)>>: the first group of the suffix
\* after k has some feasible length h, and leaves the suffix after k + h
RECURSIVE MinGroupsTable(_, _, _, _)
MinGroupsTable(records, count_limit, limit, from) ==
    IF from = Len(records) THEN <<0>>
    ELSE LET rest == MinGroupsTable(records, count_limit, limit, from + 1)
             firsts == { h \in 1..(Len(records) - from) :
                           Feasible(SubSeq(records, from + 1, from + h), count_limit, limit) }
         IN <<1 + SetMin({rest[h] : h \in firsts})>> \o rest

MinGroups(records, count_limit, limit) ==
    MinGroupsTable(records, count_limit, limit, 0)[1]

C6_FewestBatches ==
    pc = "done" => Len(emitted) = MinGroups(Pulled, message_limit, size_limit)

\* a run in which cutting after the first record would cost a batch more
C6_Witness ==
    /\ pc = "done"
    /\ SizeLimited
    /\ Len(original) = 3
    /\ Len(emitted) = 2
    /\ Len(emitted[1]) = 2
    /\ message_limit = 2
    /\ SumSizes(emitted[1]) = size_limit[1]

\* C7: batches are maximal. A batch that is followed by another one holds
\* message_limit records, or its size plus the size of the record that opens the
\* next batch is greater than size_limit.
C7_BatchesMaximal ==
    \A b \in 1..(Len(BatchesSoFar) - 1) :
        \/ Len(BatchesSoFar[b]) = message_limit
        \/ /\ SizeLimited
           /\ SumSizes(BatchesSoFar[b]) + GetSize(BatchesSoFar[b + 1][1]) > size_limit[1]

\* one batch closed by the size limit alone, one by the count limit alone
C7_Witness ==
    /\ pc = "done"
    /\ SizeLimited
    /\ Len(emitted) = 3
    /\ Len(emitted[1]) < message_limit
    /\ Len(emitted[2]) = message_limit
    /\ SumSizes(emitted[2]) + GetSize(emitted[3][1]) <= size_limit[1]

\* C8: for an empty input _get_batches emits no batch, and send_batches and
\* delete_batches call the delivery primitive zero times and return empty
\* Successful and Failed lists.
C8_EmptyInput ==
    original = <<>> =>
        /\ emitted = <<>>
        /\ calls = <<>>
        /\ ret = [Successful |-> <<>>, Failed |-> <<>>]
        /\ pc \in {"start", "for", "done"}
        /\ raised = ""

C8_Witness ==
    /\ original = <<>>
    /\ caller = "send_batches"
    /\ pc = "done"

\* C9: every emitted batch is non-empty, whatever the input and the limits.
C9_BatchesNonEmpty ==
    \A b \in 1..Len(emitted) : emitted[b] # <<>>

\* an oversized first record, and later a batch closed at the count limit
C9_Witness ==
    /\ SizeLimited
    /\ Len(emitted) >= 3
    /\ GetSize(emitted[1][1]) > size_limit[1]
    /\ Len(emitted[2]) = message_limit
    /\ SumSizes(emitted[2]) + GetSize(emitted[3][1]) <= size_limit[1]

\* C10: a record without an identifier (Id missing or None) receives
\* '<prefix>-<i>': the run's one prefix, a hyphen, and the decimal numeral of the
\* record's 1-based position in the whole input, records that carry their own Id
\* counted; a record that has an Id keeps it. In the test the 6th record gets
\* '00000000-6' and the 5th keeps '5'.
IsDigits(s) == \A k \in 1..Len(s) : s[k] \in 48..57

RECURSIVE DecimalValue(_)
DecimalValue(s) ==
    IF s = <<>> THEN 0 ELSE 10 * DecimalValue(SubSeq(s, 1, Len(s) - 1)) + (s[Len(s)] - 48)

IsNumeralOf(s, n) ==
    /\ s # <<>>
    /\ IsDigits(s)
    /\ Len(s) > 1 => s[1] # 48
    /\ DecimalValue(s) = n

IsGeneratedId(id, prefix, n) ==
    /\ Len(id) > Len(prefix) + 1
    /\ SubSeq(id, 1, Len(prefix)) = prefix
    /\ id[Len(prefix) + 1] = 45
    /\ IsNumeralOf(SubSeq(id, Len(prefix) + 2, Len(id)), n)

C10_GeneratedIds ==
    /\ pc # "start" =>
          /\ base_id \in TokenHex4
          /\ \A k \in 1..Len(Pulled) :
                IF Get(original[k], "Id") = None
                THEN /\ Pulled[k].Id # None
                     /\ IsGeneratedId(Pulled[k].Id[1], base_id, k)
                ELSE Pulled[k].Id = original[k].Id
    /\ ( /\ caller = "delete_batches"
         /\ original = TestDeleteMessages
         /\ base_id = <<48, 48, 48, 48, 48, 48, 48, 48>>
         /\ i = 6 )
       => /\ all_deletes[5].Id = Some(<<53>>)
          /\ all_deletes[6].Id = Some(<<48, 48, 48, 48, 48, 48, 48, 48, 45, 54>>)

C10_Witness ==
    /\ caller = "delete_batches"
    /\ original = TestDeleteMessages
    /\ base_id = <<48, 48, 48, 48, 48, 48, 48, 48>>
    /\ pc = "done"
    /\ Len(calls) = 2
    /\ calls[2][1].Id = Some(<<48, 48, 48, 48, 48, 48, 48, 48, 45, 54>>)

\* C11: when the identifiers the caller supplied are pairwise distinct, any two
\* records of the run carry different identifiers, whatever mix of records with
\* and without a supplied identifier the input holds.
SuppliedIdsDistinct ==
    \A j, k \in 1..Len(original) :
        ( /\ j # k
          /\ Get(original[j], "Id") # None
          /\ Get(original[k], "Id") # None )
        => original[j].Id # original[k].Id

C11_IdsUniqueInRun ==
    SuppliedIdsDistinct =>
        \A j, k \in 1..Len(Pulled) : j # k => Pulled[j].Id # Pulled[k].Id

\* C12: the packer changes nothing in a record but the identifier it fills in
\* when the record has none: an Id the caller supplied is never overwritten, and
\* the body, the attributes and every other field of every record are after the
\* run what they were before it. Records not yet pulled, and the caller's
\* records in delete_batches, are not touched at all.
C12_OnlyIdFilledIn ==
    /\ Len(all_messages) = Len(original)
    /\ \A k \in 1..Len(original) :
          /\ WithoutId(all_messages[k]) = WithoutId(original[k])
          /\ Get(original[k], "Id") # None => all_messages[k] = original[k]
          /\ (k > i \/ caller = "delete_batches") => all_messages[k] = original[k]
    /\ \A k \in 1..Len(Pulled) :
          /\ SameRecord(Pulled[k], original[k])
          /\ Get(original[k], "Id") # None => Pulled[k].Id = original[k].Id

\* send_batches over a record with DelaySeconds and no Id and a record with an Id
C12_Witness ==
    /\ caller = "send_batches"
    /\ pc = "done"
    /\ SizeLimited
    /\ Len(original) = 2
    /\ "DelaySeconds" \in DOMAIN original[1]
    /\ "Id" \notin DOMAIN original[1]
    /\ "Id" \in DOMAIN all_messages[1]
    /\ Get(original[2], "Id") # None

\* C13: for every finite input the packer terminates. The run ends, by the end
\* of the generator or by an exception, and only a record that _get_size cannot
\* measure (no MessageBody, under a size limit) ends it by an exception. The step that
\* leaves the yield of line 45 appends the waiting record to the new batch;
\* whenever the loop is at its top every record pulled so far is in an emitted
\* batch or in the current one; and the run ends only with the source exhausted
\* and the pending batch emitted.
C13_Terminates ==
    /\ <>(pc = "done" \/ raised # "")
    /\ [](raised = "KeyError" => SizeLimited /\ GetSizeRaises(message))
    /\ [][ (pc = "yield45" /\ pc' # "yield45") =>
              (pc' = "for" /\ current_batch' = <<message>> /\ message' = message) ]_vars
    /\ [](pc = "for" => Concat(emitted) \o current_batch = Pulled)
    /\ [](pc = "done" =>
            /\ i = Len(original)
            /\ current_batch # <<>> => emitted[Len(emitted)] = current_batch
            /\ original # <<>> => emitted # <<>>)

\* the direct run of the test's eleven records: three batches, then the end
C13_Witness ==
    /\ caller = "_get_batches"
    /\ original = TestSendMessages
    /\ size_limit = Some(49)
    /\ pc = "done"
    /\ raised = ""
    /\ Len(emitted) = 3

\* The list a response carries under key, nothing when it lacks the key
ListOf(resp, key) == IF key \in DOMAIN resp THEN resp[key] ELSE <<>>

\* The lists under key of the responses, joined first response first
RECURSIVE JoinLists(_, _)
JoinLists(resps, key) ==
    IF resps = <<>> THEN <<>>
    ELSE ListOf(Head(resps), key) \o JoinLists(Tail(resps), key)

\* C14: in send_batches and delete_batches the result holds, at every point of
\* the run, the Successful lists of the responses received so far joined in the
\* order the batches were sent and, separately, their Failed lists joined the
\* same way; there is one response per delivered batch, each with one entry per
\* record of the batch at its position, and a response without one of the lists adds nothing to it.
C14_ResultConcatenatesResponses ==
    caller # "_get_batches" =>
        /\ DOMAIN ret = {"Successful", "Failed"}
        /\ ret.Successful = JoinLists(responses, "Successful")
        /\ ret.Failed = JoinLists(responses, "Failed")
        /\ Len(responses) <= Len(calls)
        /\ \A k \in 1..Len(responses) :
              Len(ListOf(responses[k], "Successful")) + Len(ListOf(responses[k], "Failed"))
                  = Len(emitted[k])

C14_Witness ==
    /\ caller = "send_batches"
    /\ pc = "done"
    /\ Len(responses) = 2
    /\ "Failed" \notin DOMAIN responses[1]
    /\ "Successful" \notin DOMAIN responses[2]
    /\ Len(ret.Successful) >= 1
    /\ Len(ret.Failed) >= 1

\* C15: send_batches and delete_batches hand every emitted batch to the client
\* exactly once, in emission order, as the Entries of the call: the calls made so
\* far are the batches emitted so far, at most the newest one still waiting, each
\* step makes at most one call and that for the newest batch, and a finished run
\* has made exactly one call per batch whatever failures the responses listed.
C15_OneCallPerBatch ==
    /\ [](caller # "_get_batches" =>
            /\ Len(emitted) - 1 <= Len(calls)
            /\ Len(calls) <= Len(emitted)
            /\ calls = SubSeq(emitted, 1, Len(calls))
            /\ (pc \in {"for", "done"} => calls = emitted))
    /\ [][ calls' # calls =>
              /\ Len(calls) < Len(emitted)
              /\ calls' = Append(calls, emitted[Len(emitted)])
              /\ emitted' = emitted ]_vars

C15_Witness ==
    /\ caller = "send_batches"
    /\ pc = "done"
    /\ Len(emitted) = 2
    /\ calls = emitted
    /\ Len(responses) = 2
    /\ ListOf(responses[1], "Failed") # <<>>

\* C16: in send_batches and delete_batches a failure of the client call is data
\* of the result: no run ends by the client's exception, and every call made so
\* far has contributed its outcome to the result, so that nothing stops the
\* later batches or drops the outcomes of the earlier ones.
C16_FailuresAreData ==
    caller # "_get_batches" =>
        /\ raised # "ClientError"
        /\ Len(responses) = Len(calls)

\* The bytes of the UTF-8 encoding of a code point and of a string
Utf8Bytes(c) ==
    IF c < 128 THEN <<c>>
    ELSE IF c < 2048 THEN <<192 + (c \div 64), 128 + (c % 64)>>
    ELSE IF c < 65536
    THEN <<224 + (c \div 4096), 128 + ((c \div 64) % 64), 128 + (c % 64)>>
    ELSE <<240 + (c \div 262144), 128 + ((c \div 4096) % 64),
           128 + ((c \div 64) % 64), 128 + (c % 64)>>

RECURSIVE Utf8Encode(_)
Utf8Encode(str) ==
    IF str = <<>> THEN <<>> ELSE Utf8Bytes(Head(str)) \o Utf8Encode(Tail(str))

\* The bytes of the value of an attribute: its string value encoded, else its
\* binary value, else nothing
ValueBytes(data) ==
    IF "StringValue" \in DOMAIN data THEN Utf8Encode(data.StringValue)
    ELSE IF "BinaryValue" \in DOMAIN data THEN data.BinaryValue
    ELSE <<>>

\* The bytes of name, kind and value of one attribute, with nothing in between
PlainBytes(name, data) ==
    Utf8Encode(name) \o Utf8Encode(data.DataType) \o ValueBytes(data)

\* The attribute with 4-byte lengths and the 1-byte discriminator of the value
WireLen(name, data) ==
    (4 + Len(Utf8Encode(name))) + (4 + Len(Utf8Encode(data.DataType)))
    + (1 + 4 + Len(ValueBytes(data)))

RECURSIVE TotalPlain(_, _)
TotalPlain(attrs, names) ==
    IF names = {} THEN 0
    ELSE LET n == CHOOSE x \in names : TRUE
         IN Len(PlainBytes(n, attrs[n])) + TotalPlain(attrs, names \ {n})

RECURSIVE TotalWire(_, _)
TotalWire(attrs, names) ==
    IF names = {} THEN 0
    ELSE LET n == CHOOSE x \in names : TRUE
         IN WireLen(n, attrs[n]) + TotalWire(attrs, names \ {n})

\* _get_size has returned and message_size is its value
Estimated == caller = "_get_size" /\ pc = "size_done"

AttributesOf(m) == IF "MessageAttributes" \in DOMAIN m THEN m.MessageAttributes ELSE <<>>

\* The record without its attribute n
WithoutAttribute(m, n) ==
    [m EXCEPT !.MessageAttributes =
        [x \in (DOMAIN m.MessageAttributes) \ {n} |-> m.MessageAttributes[x]]]

\* C17 as stated: the estimate is the body's bytes plus, per attribute, the
\* wire-format length (4 + name) + (4 + kind) + (1 + 4 + value), and the record
\* with a 10-byte body and the attribute 'text' / 'String' / 2-byte value has
\* the estimate 35.
C17_WireFormatSize ==
    Estimated =>
        /\ message_size = Len(Utf8Encode(message.MessageBody))
                            + TotalWire(AttributesOf(message), DOMAIN AttributesOf(message))
        /\ message = ScenarioRecord => message_size = 35

\* C17 amended: every attribute adds to the estimate the bytes of its name, of
\* its kind and of its value and nothing for length fields or a discriminator
\* (the estimate exceeds that of the record without the attribute by exactly
\* these bytes), and the record with a 10-byte body and the attribute 'text' /
\* 'String' / 2-byte value has the estimate 10 + 4 + 6 + 2 = 22.
C17_PlainAttributeSize ==
    Estimated =>
        /\ \A n \in DOMAIN AttributesOf(message) :
              message_size - GetSize(WithoutAttribute(message, n))
                  = Len(Utf8Encode(n)) + Len(Utf8Encode(message.MessageAttributes[n].DataType))
                    + Len(ValueBytes(message.MessageAttributes[n]))
        /\ message = ScenarioRecord => message_size = 22

C17_Witness == Estimated /\ message = ScenarioRecord /\ message_size = 22

\* C18: the value _get_size returns is the number of bytes of the UTF-8 encoding
\* of the body plus, for every message attribute, the bytes of the encoding of
\* its name and of its DataType and the bytes of its value (StringValue encoded,
\* else BinaryValue as it is), and nothing else; characters of several bytes
\* count by their bytes, and the record of the test gives 78.
C18_SizeIsUtf8Bytes ==
    Estimated =>
        /\ message_size = Len(Utf8Encode(message.MessageBody))
                            + TotalPlain(AttributesOf(message), DOMAIN AttributesOf(message))
        /\ message = TestSizeMessage => message_size = 78

C18_Witness == Estimated /\ message = TestSizeMessage /\ message_size = 78

\* C19: for a record without attributes the estimate is the number of bytes of
\* the UTF-8 encoding of its body, whichever of Id, DelaySeconds and
\* MessageSystemAttributes the record carries.
C19_NoAttributesBodyBytes ==
    (Estimated /\ DOMAIN AttributesOf(message) = {}) =>
        message_size = Len(Utf8Encode(message.MessageBody))

C19_Witness ==
    /\ Estimated
    /\ "MessageAttributes" \notin DOMAIN message
    /\ "MessageSystemAttributes" \in DOMAIN message
    /\ message.MessageBody = <<8364, 128372>>
    /\ message_size = 7

\* C20: a call of _get_size with a record that has no MessageBody ends by
\* raising KeyError; it never returns an estimate for such a record.
C20_MissingBodyRaises ==
    (caller = "_get_size" /\ "MessageBody" \notin DOMAIN message) =>
        /\ pc \in {"size_start", "raised"}
        /\ pc = "raised" => raised = "KeyError" /\ message_size = 0
        /\ pc = "size_start" => raised = ""

C20_Witness ==
    /\ caller = "_get_size"
    /\ "MessageBody" \notin DOMAIN message
    /\ "MessageAttributes" \in DOMAIN message
    /\ pc = "raised"
    /\ raised = "KeyError"

\* C21: the generator raises no error whatever the records look like: no run
\* ends by the KeyError of a record without MessageBody, and a run that has
\* finished under a size limit has every record it consumed in a batch.
C21_PackerNeverRaises ==
    /\ raised # "KeyError"
    /\ (SizeLimited /\ pc = "done") => Concat(emitted) = Pulled

\* C22: in a run without a size limit, which every delete_batches run is, no
\* record is estimated: message_size and the running size stay zero, the run
\* never ends by the estimator's KeyError, records without a MessageBody are
\* placed like any other, and a batch handed over before the input is exhausted
\* holds exactly message_limit records.
C22_UnsizedRun ==
    /\ caller = "delete_batches" => size_limit = None
    /\ size_limit = None =>
          /\ message_size = 0
          /\ current_size = 0
          /\ raised # "KeyError"
          /\ pc = "for" => Concat(emitted) \o current_batch = Pulled
          /\ pc = "done" => Concat(emitted) = Pulled
          /\ pc = "yield45" => Len(emitted[Len(emitted)]) = message_limit

C22_Witness ==
    /\ caller = "_get_batches"
    /\ size_limit = None
    /\ pc = "done"
    /\ message_limit = 2
    /\ Len(emitted) = 2
    /\ Len(emitted[1]) = 2
    /\ "MessageBody" \notin DOMAIN emitted[1][1]
    /\ "MessageBody" \in DOMAIN emitted[1][2]
    /\ Len(emitted[1][2].MessageBody) >= 2

\* ceil(n / m) for m >= 1
CeilDiv(n, m) == (n + m - 1) \div m

\* C23: without a size limit a finished run over n records with message_limit
\* m has emitted ceil(n / m) batches, each of m records except the last, which
\* holds the rest; ten records with m = 5 give two batches of 5, six records
\* with m = 5 give a batch of 5 and a batch of 1.
C23_CountOnlyBatches ==
    (size_limit = None /\ pc = "done") =>
        LET n == Len(original)
            m == message_limit
        IN /\ Len(emitted) = CeilDiv(n, m)
           /\ \A b \in 1..Len(emitted) :
                 Len(emitted[b]) = IF b < Len(emitted) THEN m ELSE n - m * (b - 1)
           /\ (n = 10 /\ m = 5) => Len(emitted) = 2 /\ Len(emitted[2]) = 5
           /\ (n = 6 /\ m = 5) => Len(emitted) = 2 /\ Len(emitted[2]) = 1

C23_Witness ==
    /\ size_limit = None
    /\ pc = "done"
    /\ original = TenMessages
    /\ message_limit = 5
    /\ Len(emitted) = 2
    /\ Len(emitted[1]) = 5
    /\ Len(emitted[2]) = 5

\* C25: every entry delete_batches passes to delete_message_batch has the keys
\* Id and ReceiptHandle and no other; the entry at position k of the run carries
\* the ReceiptHandle of the k-th message and its Id, or the Id generated for
\* position k when the message has none; Body and every other key are left out.
C25_DeleteEntries ==
    caller = "delete_batches" =>
        /\ \A c \in 1..Len(calls) :
              /\ calls[c] = emitted[c]
              /\ \A e \in 1..Len(calls[c]) :
                    LET entry == calls[c][e]
                        k == Offset(calls, c) + e
                    IN /\ DOMAIN entry = {"Id", "ReceiptHandle"}
                       /\ entry.ReceiptHandle = Get(original[k], "ReceiptHandle")
                       /\ entry.Id = IF Get(original[k], "Id") = None
                                     THEN Some(base_id \o <<45>> \o Decimal(k))
                                     ELSE original[k].Id
        /\ (original = TestDeleteMessages /\ Len(calls) = 2) =>
              calls[2] = << [Id |-> Some(base_id \o <<45, 54>>),
                             ReceiptHandle |-> Some(TestReceipt(6))] >>

C25_Witness ==
    /\ caller = "delete_batches"
    /\ original = TestDeleteMessages
    /\ pc = "done"
    /\ Len(calls) = 2
    /\ Len(calls[1]) = 5
    /\ "Body" \in DOMAIN original[1]
    /\ DOMAIN calls[1][1] = {"Id", "ReceiptHandle"}
    /\ calls[1][5].Id = Some(<<53>>)

\* The sizes that decide the batches of a run, taken from the records with
\* their Ids removed: zero without a size limit
IdFreeSizes ==
    [k \in 1..Len(original) |->
        IF size_limit = None THEN 0 ELSE GetSize(WithoutId(original[k]))]

\* The lengths of the batches that record sizes and the two limits determine:
\* records k.. remain, the open batch holds cnt records of sz bytes in all
RECURSIVE PartitionOf(_, _, _, _, _, _)
PartitionOf(sizes, k, cnt, sz, count_limit, limit) ==
    IF k > Len(sizes) THEN (IF cnt > 0 THEN <<cnt>> ELSE <<>>)
    ELSE IF cnt > 0 /\ (cnt = count_limit \/ (limit # None /\ sz + sizes[k] > limit[1]))
    THEN <<cnt>> \o PartitionOf(sizes, k + 1, 1, sizes[k], count_limit, limit)
    ELSE PartitionOf(sizes, k + 1, cnt + 1, sz + sizes[k], count_limit, limit)

\* C24: the partition of a finished run into batches is a function of the
\* records without their Ids and of the two limits alone, so that two runs over
\* inputs that differ at most in Ids, with the same limits and any random
\* prefixes, cut the input at the same places; the batched records are the
\* input records, their Ids apart.
C24_PartitionIgnoresIds ==
    (caller = "_get_batches" /\ pc = "done" /\ raised = "") =>
        /\ [b \in 1..Len(emitted) |-> Len(emitted[b])]
              = PartitionOf(IdFreeSizes, 1, 0, 0, message_limit, size_limit)
        /\ Len(Concat(emitted)) = Len(original)
        /\ \A k \in 1..Len(original) :
              WithoutId(Concat(emitted)[k]) = WithoutId(original[k])

C24_Witness ==
    /\ caller = "_get_batches"
    /\ pc = "done"
    /\ raised = ""
    /\ size_limit = Some(2)
    /\ base_id = <<97, 49, 98, 50, 99, 51, 100, 52>>
    /\ original = <<RecB, RecA>>
    /\ Len(emitted) = 2

\* The keys the first n responses of the run reported as unprocessed, in order
RECURSIVE ReportedUnprocessed(_)
ReportedUnprocessed(n) ==
    IF n = 0 THEN <<>> ELSE ReportedUnprocessed(n - 1) \o UnprocessedOf(ddb.resps[n])

\* The items of the first n responses of the run, in order
RECURSIVE ReturnedItems(_)
ReturnedItems(n) ==
    IF n = 0 THEN <<>> ELSE ReturnedItems(n - 1) \o ddb.resps[n].Responses

\* The number of requests of the run that ask for key
TimesRequested(key) ==
    Cardinality({ <<r, k>> \in (1..Len(ddb.requests)) \X (1..BATCH_SIZE) :
                    k <= Len(ddb.requests[r]) /\ ddb.requests[r][k] = key })

TimesReported(key) ==
    Cardinality({ k \in 1..Len(ReportedUnprocessed(Len(ddb.resps))) :
                    ReportedUnprocessed(Len(ddb.resps))[k] = key })

\* C26: batch_yield_items asks for at most batch_size keys per call; the keys
\* asked for so far followed by the pending ones are the supplied keys followed
\* by the keys reported as unprocessed, in the order reported, so that every
\* reported key is asked for again in a later call; the items yielded are the
\* items of the responses in response order; the run ends only with no key
\* pending and has then asked for every supplied key once and once more for
\* every time it was reported as unprocessed.
C26_BatchedRetriedUntilDone ==
    ddb.pc # "idle" =>
        LET absorbed == IF ddb.pc \in {"while", "done"}
                        THEN Len(ddb.resps) ELSE Len(ddb.resps) - 1
        IN /\ \A r \in 1..Len(ddb.requests) :
                 /\ Len(ddb.requests[r]) <= ddb.batch_size
                 /\ r < Len(ddb.requests) => ddb.requests[r] # <<>>
           /\ Concat(ddb.requests) \o ddb.unprocessed_keys
                 = ddb.all_keys \o ReportedUnprocessed(absorbed)
           /\ ddb.yielded = ReturnedItems(IF ddb.pc = "yield_from" THEN Len(ddb.resps) - 1
                                          ELSE Len(ddb.resps))
           /\ ddb.pc = "done" =>
                 /\ ddb.unprocessed_keys = <<>>
                 /\ UnprocessedOf(ddb.resp) = <<>>
                 /\ \A k \in 1..Len(ddb.all_keys) :
                       TimesRequested(ddb.all_keys[k]) = 1 + TimesReported(ddb.all_keys[k])

C26_Witness ==
    /\ ddb.pc = "done"
    /\ ddb.all_keys = KeysTo(6)
    /\ Len(ddb.requests) = 2
    /\ ddb.requests[2] = SubSeq(KeysTo(6), 4, 6)
    /\ ddb.yielded = ItemsOf(KeysTo(6))

\* C27: batch_yield_items sleeps once between two consecutive calls of
\* batch_get_item, retry or next chunk alike, and not after the last call; sleep
\* number k, counted from 0, lasts min(backoff_base * 2^k, backoff_max), so the
\* delays never decrease and never exceed backoff_max; base 0.1 and maximum 0.2
\* with four calls give 0.1, 0.2, 0.2.
C27_BackoffBetweenCalls ==
    ddb.pc # "idle" =>
        /\ Len(ddb.sleeps) = IF ddb.pc = "while" THEN Len(ddb.requests)
                             ELSE Len(ddb.requests) - 1
        /\ ddb.i = Len(ddb.sleeps)
        /\ \A k \in 1..Len(ddb.sleeps) :
              /\ ddb.sleeps[k] = Min(ddb.backoff_base * Pow2(k - 1), ddb.backoff_max)
              /\ ddb.sleeps[k] <= ddb.backoff_max
              /\ k > 1 => ddb.sleeps[k - 1] <= ddb.sleeps[k]
        /\ (ddb.pc = "done" /\ ddb.backoff_base = 1 /\ ddb.backoff_max = 2
              /\ Len(ddb.requests) = 4) => ddb.sleeps = <<1, 2, 2>>

C27_Witness ==
    /\ ddb.pc = "done"
    /\ ddb.all_keys = KeysTo(8)
    /\ ddb.batch_size = 2
    /\ ddb.retries = 0
    /\ Len(ddb.requests) = 4
    /\ ddb.sleeps = <<1, 2, 2>>

\* The shards of the first n responses of the listing, in order
RECURSIVE ListedShards(_)
ListedShards(n) ==
    IF n = 0 THEN <<>> ELSE ListedShards(n - 1) \o ShardsOf(kinesis.resps[n])

ExcludedByToken == {"StreamName", "ExclusiveStartShardId", "StreamCreationTimestamp"}

\* C28: in yield_all_shards every list_shards request after the first carries
\* the NextToken of the response before it, none of StreamName,
\* ExclusiveStartShardId and StreamCreationTimestamp, and every other parameter
\* of the caller with its value, and nothing else; the shards yielded are those
\* of the responses in page order; every response but the last had a NextToken
\* and the run ends at the first response without one. The call of the test
\* sends NextToken and MaxResults in its second request.
C28_ShardPaging ==
    kinesis.pc \in {"while", "yield_from", "token", "done"} =>
        /\ \A r \in 2..Len(kinesis.requests) :
              LET req == kinesis.requests[r]
                  kept == (DOMAIN kinesis.original) \ (ExcludedByToken \cup {"NextToken"})
              IN /\ DOMAIN req = kept \cup {"NextToken"}
                 /\ req.NextToken = kinesis.resps[r - 1].NextToken
                 /\ \A p \in kept : req[p] = kinesis.original[p]
        /\ Len(kinesis.resps) = Len(kinesis.requests)
        /\ \A r \in 1..(Len(kinesis.resps) - 1) : "NextToken" \in DOMAIN kinesis.resps[r]
        /\ kinesis.yielded = ListedShards(IF kinesis.pc = "yield_from"
                                          THEN Len(kinesis.resps) - 1
                                          ELSE Len(kinesis.resps))
        /\ kinesis.pc = "while" /\ kinesis.resps # <<>> =>
              "NextToken" \in DOMAIN kinesis.resps[Len(kinesis.resps)]
        /\ kinesis.pc = "done" =>
              "NextToken" \notin DOMAIN kinesis.resps[Len(kinesis.resps)]
        /\ (Len(kinesis.requests) >= 2
              /\ DOMAIN kinesis.original = ExcludedByToken \cup {"MaxResults"}) =>
              kinesis.requests[2] = [NextToken |-> PageToken(1), MaxResults |-> 2]

C28_Witness ==
    /\ kinesis.pc = "done"
    /\ DOMAIN kinesis.original = ExcludedByToken \cup {"MaxResults"}
    /\ Len(kinesis.requests) = 2
    /\ kinesis.requests[2] = [NextToken |-> PageToken(1), MaxResults |-> 2]
    /\ kinesis.yielded = <<Shard(1), Shard(2), Shard(3)>>

\* The available records of the shard listed at position sh, in the shard's order
RECURSIVE AvailableRecords(_, _)
AvailableRecords(pages, n) ==
    IF n = 0 THEN <<>> ELSE AvailableRecords(pages, n - 1) \o RecordsOf(pages[n])

\* Where record k of shard sh stands in a round-robin over the shards: behind
\* the first k - 1 records of every shard and record k of the shards before sh
RoundRobinPlace(sh, k) ==
    LET avail(o) == Len(AvailableRecords(kinesis.stream[o], Len(kinesis.stream[o])))
        before(o) == IF o < sh THEN Min(avail(o), k) ELSE Min(avail(o), k - 1)
        sum[o \in 0..Len(kinesis.stream)] == IF o = 0 THEN 0 ELSE sum[o - 1] + before(o)
    IN sum[Len(kinesis.stream)] + 1

\* C29: yield_available_stream_records yields the records of the shards in
\* round-robin over the shards in listing order: record k of a shard is yielded
\* at the place that follows the first k - 1 records of every shard and the k-th
\* records of the shards listed before it, shards with fewer records being
\* passed over; a finished run has yielded every available record of every
\* shard exactly once, each shard's records in their own order. The stream of
\* the test gives a1, b1, a2, b2, b3.
C29_RoundRobinRecords ==
    kinesis.pc \in {"list", "zip", "yield", "done"} =>
        /\ \A p \in 1..Len(kinesis.yielded) :
              LET rec == kinesis.yielded[p]
                  sh == rec.PartitionKey
                  avail == AvailableRecords(kinesis.stream[sh], Len(kinesis.stream[sh]))
              IN /\ sh \in 1..Len(kinesis.stream)
                 /\ rec.SequenceNumber \in 1..Len(avail)
                 /\ avail[rec.SequenceNumber] = rec
                 /\ RoundRobinPlace(sh, rec.SequenceNumber) = p
        /\ kinesis.pc = "done" =>
              \A sh \in 1..Len(kinesis.stream) :
                 LET avail == AvailableRecords(kinesis.stream[sh], Len(kinesis.stream[sh]))
                 IN \A k \in 1..Len(avail) :
                       /\ RoundRobinPlace(sh, k) <= Len(kinesis.yielded)
                       /\ kinesis.yielded[RoundRobinPlace(sh, k)] = avail[k]
        /\ (kinesis.pc = "done" /\ kinesis.stream = TestStream) =>
              kinesis.yielded = <<StreamRecord(1, 1), StreamRecord(2, 1), StreamRecord(1, 2),
                                  StreamRecord(2, 2), StreamRecord(2, 3)>>

C29_Witness ==
    /\ kinesis.pc = "done"
    /\ Len(kinesis.stream) = 3
    /\ Len(kinesis.stream[2]) = 3
    /\ kinesis.yielded = <<StreamRecord(1, 1), StreamRecord(2, 1), StreamRecord(3, 1),
                            StreamRecord(2, 2), StreamRecord(3, 2), StreamRecord(3, 3)>>

\* The names reached from the names in reached by n steps from an action to one
\* that follows it
RECURSIVE FollowersWithin(_, _, _)
FollowersWithin(schedule, reached, n) ==
    IF n = 0 THEN reached
    ELSE FollowersWithin(schedule,
            reached \cup { schedule[k].ActionName : k \in
                { k \in 1..Len(schedule) :
                    LET start == schedule[k].ScheduleActionStartSettings
                    IN /\ "FollowModeScheduleActionStartSettings" \in DOMAIN start
                       /\ start.FollowModeScheduleActionStartSettings.ReferenceActionName
                            \in reached } },
            n - 1)

RootOf(schedule, name) ==
    FollowedUp(ParentMap(schedule), name, Len(schedule))

\* C31: deleting any action of a follow chain deletes and returns the whole
\* chain, the root and the siblings of the named action included, so that every
\* action of one chain gives the same result; for the schedule of the tests each
\* of chain_1, chain_1_1, chain_1_1_1 and chain_1_2 gives the four of them
C31_WholeChainFromAnyMember ==
    medialive.pc = "done" =>
        LET names == { medialive.schedule[k].ActionName : k \in 1..Len(medialive.schedule) }
            chain == { a \in names : RootOf(medialive.schedule, a)
                                     = RootOf(medialive.schedule, medialive.delete_action_name) }
        IN /\ medialive.ret = Some(SortedNames(chain))
           /\ ~medialive.dry_run => medialive.updates = <<SortedNames(chain)>>

\* C32: a call that names an action the schedule does not list ends by raising
\* ValueError, returns nothing and has made no batch_update_schedule call; a
\* call that names a listed action does not raise
C32_NotFoundRaises ==
    LET names == { medialive.schedule[k].ActionName : k \in 1..Len(medialive.schedule) }
    IN medialive.pc \in {"raised", "done"} =>
         /\ medialive.pc = "raised" <=> medialive.delete_action_name \notin names
         /\ medialive.pc = "raised" =>
               /\ medialive.raised = "ValueError"
               /\ medialive.ret = None
               /\ medialive.updates = <<>>
         /\ medialive.pc = "done" => medialive.raised = ""

C32_Witness ==
    /\ medialive.pc = "raised"
    /\ medialive.schedule = TEST_SCHEDULE_ACTIONS
    /\ medialive.delete_action_name = Chain3
    /\ ~medialive.dry_run
    /\ medialive.raised = "ValueError"
    /\ medialive.updates = <<>>

\* The version numbers of nums that are not among the keep highest
BelowTheHighest(nums, keep) ==
    { v \in nums : Cardinality({ w \in nums : w > v }) >= keep }

\* The numerals of the numbers of nums, in ascending order of the numbers
RECURSIVE AscendingNumerals(_)
AscendingNumerals(nums) ==
    IF nums = {} THEN <<>>
    ELSE LET low == CHOOSE v \in nums : \A w \in nums : v <= w
         IN <<Decimal(low)>> \o AscendingNumerals(nums \ {low})

\* C33: publish_version_limited calls publish_version, then
\* list_versions_by_function, then delete_function for the lowest-numbered
\* versions in ascending order, so that for every keep_count >= 0 the versions
\* left are the keep_count highest-numbered of those listed; when at most
\* keep_count are listed there is no delete call and all are left
C33_KeepsHighestVersions ==
    awslambda.pc = "done" =>
        LET listed == { IntOf(awslambda.all_versions[k].Version) :
                          k \in 1..Len(awslambda.all_versions) }
            old == BelowTheHighest(listed, awslambda.keep_count)
            numerals == AscendingNumerals(old)
        IN /\ awslambda.versions = listed \ old
           /\ awslambda.calls = <<<<"publish_version">>, <<"list_versions_by_function">>>>
                  \o [k \in 1..Len(numerals) |-> <<"delete_function", numerals[k]>>]
           /\ Cardinality(listed) <= awslambda.keep_count => Len(awslambda.calls) = 2
           /\ awslambda.ret = awslambda.publish_resp

\* C34: however the newline-terminated records of a result are split into
\* Records events, with other events between, query_object yields each record
\* once and in stream order: what it has yielded is at all times the first
\* records of the result, and all of them when it ends
C34_EachRecordOnce ==
    /\ Len(s3.yielded) <= Len(s3.records)
    /\ s3.yielded = SubSeq(s3.records, 1, Len(s3.yielded))
    /\ s3.pc = "done" => s3.yielded = s3.records

\* C35: no step changes a batch that has been emitted: the batches handed to
\* the caller so far stay where they are in the order of emission, with the
\* length and the members they had, while the accumulator is cleared and
\* appended to
C35_EmittedBatchesFrozen ==
    [][ /\ Len(emitted') >= Len(emitted)
        /\ \A k \in 1..Len(emitted) : emitted'[k] = emitted[k] ]_vars

\* a first batch of one record that was emitted before the accumulator was
\* cleared, took the second record and was emitted again
C35_Witness ==
    /\ caller = "_get_batches"
    /\ pc = "done"
    /\ Len(emitted) = 2
    /\ emitted[1] = <<all_messages[1]>>
    /\ emitted[2] = <<all_messages[2]>>
    /\ current_batch = emitted[2]

C37_RunningTotals ==
    /\ [](pc \in {"for", "yield45", "yield55", "done"} =>
            /\ current_count = Len(current_batch)
            /\ current_size = IF size_limit = None THEN 0 ELSE SumSizes(current_batch))
    /\ [][pc = "yield45" /\ pc' = "for" =>
            /\ current_batch' = <<message>>
            /\ current_count' = 1
            /\ current_size' = message_size
            /\ message_size = IF size_limit = None THEN 0 ELSE GetSize(message)]_vars

\* the loop head after a batch was closed on size: the record that did not fit
\* is alone in the current batch, and the totals are its own
C37_Witness ==
    /\ pc = "for"
    /\ size_limit # None
    /\ Len(emitted) = 1
    /\ Len(emitted[1]) < message_limit
    /\ current_batch = <<message>>
    /\ current_count = 1
    /\ current_size = GetSize(message)
    /\ current_size > 0

\* The keys that wait for a request once the response at hand is absorbed
PendingKeys == ddb.unprocessed_keys \o UnprocessedOf(ddb.resp)

\* C38: when the service stops reporting unprocessed keys after finitely many
\* responses, batch_yield_items ends; it ends at the first response after which
\* no key is pending and not before, and as long as keys are pending it goes
\* on to another request, however many retries it has made
C38_EndsWhenNothingPending ==
    /\ <>(ddb.pc = "done")
    /\ [](ddb.pc = "done" => PendingKeys = <<>>)
    /\ [][ddb.pc = "extend" => (ddb.pc' = "done" <=> PendingKeys = <<>>)]_vars
    /\ [][ddb.pc = "extend" /\ PendingKeys # <<>> =>
            /\ ddb.pc' = "while"
            /\ ddb'.unprocessed_keys = PendingKeys]_vars
    /\ [][ddb.pc' = "done" => ddb.pc \in {"extend", "done"}]_vars

\* a run that ended after as many retries as the service asked for
C38_Witness ==
    /\ ddb.pc = "done"
    /\ ddb.retries = 2
    /\ Len(ddb.requests) >= 3
    /\ ddb.yielded # <<>>

\* No action of the schedule follows itself through other actions
NoReferenceCycle ==
    LET follows == ParentMap(medialive.schedule)
    IN \A a \in DOMAIN follows :
          LET top == FollowedUp(follows, a, Len(medialive.schedule))
          IN follows[top] = top

\* C39 as claimed: _parse_action_chains returns for every schedule whose
\* follow-mode actions each refer to an action of the schedule
C39_ParseTerminates ==
    <>(medialive.pc = "returned")

\* C39 as amended: for every schedule whose follow-mode actions each refer to an
\* action of the schedule and in which no action follows itself through others,
\* the walk from every action reaches an action that is its own parent within
\* as many passes as the schedule has actions, and _parse_action_chains
\* returns, with the children of every action as the walks give them
C39_ParseTerminatesWithoutCycle ==
    /\ NoReferenceCycle ~> medialive.pc = "returned"
    /\ [](NoReferenceCycle =>
            /\ medialive.steps <= Len(medialive.schedule)
            /\ medialive.pc = "returned" =>
                  medialive.children_map = ChildrenMap(medialive.parent_map))

\* the schedule of the tests parsed: chain_1 has the four actions of its chain
\* as children, found by walks of up to three passes
C39_Witness ==
    /\ medialive.pc = "returned"
    /\ medialive.schedule = TEST_SCHEDULE_ACTIONS
    /\ NoReferenceCycle
    /\ medialive.children_map[Chain1] = {Chain1, Chain11, Chain111, Chain12}
    /\ medialive.children_map[Chain11] = {Chain11, Chain111}

=============================================================================
